---- MODULE Spec2Model ----
(***************************************************************************)
(* The push pipeline of pkg/distributor/distributor.go: Distributor.Push,  *)
(* truncateLines, parseStreamLabels, sendToIngester and executePushRequest *)
(* with the streamTracker / pushTracker records they share.                *)
(*                                                                         *)
(* Strings are sequences of small naturals (bytes); a label string is a    *)
(* sequence of tuples: a <<name, value>> pair per label as written, any    *)
(* other tuple where the text is not label syntax.  Errors are records     *)
(* with a "kind" field, NoErr standing for Go's nil.                       *)
(***************************************************************************)
EXTENDS Integers, Sequences, FiniteSets, TLC

(* ------------------------------ bounds -------------------------------- *)
\* ingester addresses known to the ring
NumIngesters == 3
\* size of the token space util.TokenFor hashes into
NumTokens == 2
\* largest MaxErrors a replication set comes with
MaxMaxErrors == 1

Ingesters == 1..NumIngesters
Tokens == 0..(NumTokens - 1)

\* var maxLabelCacheSize
maxLabelCacheSize == 100000

(* ------------------------------ helpers ------------------------------- *)
Min(a, b) == IF a < b THEN a ELSE b

RECURSIVE SumSeq(_)
SumSeq(s) == IF s = <<>> THEN 0 ELSE Head(s) + SumSeq(Tail(s))

Range(s) == {s[i] : i \in 1..Len(s)}

\* the elements of a set of integers in increasing order
RECURSIVE SortedSeq(_)
SortedSeq(S) ==
  IF S = {} THEN <<>>
  ELSE LET m == CHOOSE x \in S : \A y \in S : x <= y
       IN <<m>> \o SortedSeq(S \ {m})

\* bytewise comparison of two strings: -1, 0, 1
RECURSIVE StrCmp(_, _)
StrCmp(a, b) ==
  IF a = <<>> /\ b = <<>> THEN 0
  ELSE IF a = <<>> THEN -1
  ELSE IF b = <<>> THEN 1
  ELSE IF Head(a) < Head(b) THEN -1
  ELSE IF Head(a) > Head(b) THEN 1
  ELSE StrCmp(Tail(a), Tail(b))

NoErr == [kind |-> "nil"]

(* ------------------------- tenants and limits ------------------------- *)
NoTenant == ""
Tenants == {"A", "B"}

\* validation.Overrides: the per-tenant limits the validator and the rate
\* limiter read.  Tenant A truncates long lines, tenant B rejects them.
Overrides ==
  [A |-> [maxLineSize |-> 2, maxLineSizeTruncate |-> TRUE,
          maxLabelNameLength |-> 1, maxLabelValueLength |-> 1,
          maxLabelNamesPerSeries |-> 2,
          rejectOldSamplesMaxAge |-> 1, creationGracePeriod |-> 1,
          ingestionRate |-> 1, ingestionBurst |-> 4],
   B |-> [maxLineSize |-> 2, maxLineSizeTruncate |-> FALSE,
          maxLabelNameLength |-> 2, maxLabelValueLength |-> 2,
          maxLabelNamesPerSeries |-> 3,
          rejectOldSamplesMaxAge |-> 1, creationGracePeriod |-> 1,
          ingestionRate |-> 2, ingestionBurst |-> 6]]

\* Validator.getValidationContextForTime
getValidationContextForTime(t, userID) ==
  [userID |-> userID,
   maxLineSize |-> Overrides[userID].maxLineSize,
   maxLineSizeTruncate |-> Overrides[userID].maxLineSizeTruncate,
   maxLabelNameLength |-> Overrides[userID].maxLabelNameLength,
   maxLabelValueLength |-> Overrides[userID].maxLabelValueLength,
   maxLabelNamesPerSeries |-> Overrides[userID].maxLabelNamesPerSeries,
   rejectOldSampleMaxAge |-> t - Overrides[userID].rejectOldSamplesMaxAge,
   creationGracePeriod |-> t + Overrides[userID].creationGracePeriod]

(* ------------------------------ labels -------------------------------- *)
\* "{}" : label syntax naming no label
EmptySetText == << <<>> >>

\* logql.ParseLabels: the labels sorted by name, or a syntax error
RECURSIVE InsertLabel(_, _)
InsertLabel(l, ls) ==
  IF ls = <<>> THEN <<l>>
  ELSE IF StrCmp(l[1], Head(ls)[1]) < 0 THEN <<l>> \o ls
  ELSE <<Head(ls)>> \o InsertLabel(l, Tail(ls))

RECURSIVE SortLabels(_)
SortLabels(ls) ==
  IF ls = <<>> THEN <<>> ELSE InsertLabel(Head(ls), SortLabels(Tail(ls)))

ParseLabels(key) ==
  IF key = EmptySetText THEN [err |-> NoErr, ls |-> <<>>]
  ELSE IF key = <<>> \/ \E i \in 1..Len(key) : Len(key[i]) # 2
  THEN [err |-> [kind |-> "syntax"], ls |-> <<>>]
  ELSE [err |-> NoErr, ls |-> SortLabels(key)]

\* labels.Labels.String: the canonical text of a label set
LabelsString(ls) == IF ls = <<>> THEN EmptySetText ELSE ls

\* Validator.ValidateLabels
ValidateLabels(vContext, ls) ==
  IF ls = <<>>
  THEN [kind |-> "invalid_labels", reason |-> "missing_labels"]
  ELSE IF Len(ls) > vContext.maxLabelNamesPerSeries
  THEN [kind |-> "invalid_labels", reason |-> "max_label_names_per_series"]
  ELSE IF \E i \in 1..Len(ls) : Len(ls[i][1]) > vContext.maxLabelNameLength
  THEN [kind |-> "invalid_labels", reason |-> "label_name_too_long"]
  ELSE IF \E i \in 1..Len(ls) : Len(ls[i][2]) > vContext.maxLabelValueLength
  THEN [kind |-> "invalid_labels", reason |-> "label_value_too_long"]
  ELSE IF \E i \in 1..(Len(ls) - 1) : ls[i][1] = ls[i + 1][1]
  THEN [kind |-> "invalid_labels", reason |-> "duplicate_label_names"]
  ELSE NoErr

\* Validator.ValidateEntry
ValidateEntry(vContext, entry) ==
  IF entry.ts < vContext.rejectOldSampleMaxAge
  THEN [kind |-> "invalid_entry", reason |-> "greater_than_max_sample_age"]
  ELSE IF entry.ts > vContext.creationGracePeriod
  THEN [kind |-> "invalid_entry", reason |-> "too_far_in_future"]
  ELSE IF vContext.maxLineSize # 0 /\ Len(entry.line) > vContext.maxLineSize
  THEN [kind |-> "invalid_entry", reason |-> "line_too_long"]
  ELSE NoErr

\* util.TokenFor: a hash of the tenant id and the label text.  The hash reads
\* the text in order: a label weighs by its distance from the end of the text,
\* so two spellings of one label set in different orders hash differently.
RECURSIVE SumBytes(_)
SumBytes(text) ==
  IF text = <<>> THEN 0
  ELSE Len(text) * (SumSeq(Head(text)[1]) + SumSeq(Head(text)[2])) + SumBytes(Tail(text))

TenantCode(userID) == IF userID = "A" THEN 1 ELSE IF userID = "B" THEN 2 ELSE 0

TokenFor(userID, labels) == (TenantCode(userID) + SumBytes(labels)) % NumTokens

(* ---------------------------- label cache ----------------------------- *)
\* lru.Cache: the entries from least to most recently used
CacheIndex(cache, key) ==
  IF \E i \in 1..Len(cache) : cache[i].key = key
  THEN CHOOSE i \in 1..Len(cache) : cache[i].key = key
  ELSE 0

CacheWithout(cache, i) == SubSeq(cache, 1, i - 1) \o SubSeq(cache, i + 1, Len(cache))

\* lru.Cache.Get: a hit makes the entry the most recently used
CacheGet(cache, key) ==
  LET i == CacheIndex(cache, key)
  IN IF i = 0
     THEN [ok |-> FALSE, val |-> <<>>, cache |-> cache]
     ELSE [ok |-> TRUE, val |-> cache[i].val,
           cache |-> Append(CacheWithout(cache, i), cache[i])]

\* lru.Cache.Add: the least recently used entry is evicted past the capacity
CacheAdd(cache, key, val) ==
  LET i == CacheIndex(cache, key)
      put == Append(IF i = 0 THEN cache ELSE CacheWithout(cache, i),
                    [key |-> key, val |-> val])
  IN IF Len(put) > maxLabelCacheSize THEN Tail(put) ELSE put

(* --------------------------- rate limiter ----------------------------- *)
\* limiter.RateLimiter with the local strategy: one token bucket per tenant,
\* created full on the tenant's first request.
Limit(t, userID) == Overrides[userID].ingestionRate
Burst(t, userID) == Overrides[userID].ingestionBurst

NewBucket(t, userID) == [created |-> TRUE, tokens |-> Burst(t, userID), last |-> t]

NoBuckets == [u \in Tenants |-> [created |-> FALSE, tokens |-> 0, last |-> 0]]

\* the bucket of the tenant refilled up to time t
Refilled(bkts, t, userID) ==
  LET b == IF bkts[userID].created THEN bkts[userID] ELSE NewBucket(t, userID)
  IN [b EXCEPT !.tokens = Min(Burst(t, userID), b.tokens + (t - b.last) * Limit(t, userID)),
               !.last = t]

\* limiter.RateLimiter.AllowN: the answer and the buckets after it
AllowN(bkts, t, userID, n) ==
  LET b == Refilled(bkts, t, userID)
      ok == n <= b.tokens
  IN [ok |-> ok,
      buckets |-> [bkts EXCEPT ![userID] =
                     IF ok THEN [b EXCEPT !.tokens = b.tokens - n] ELSE b]]

(* ------------------------------ metrics ------------------------------- *)
Reasons == {"invalid_labels", "rate_limited", "line_too_long",
            "greater_than_max_sample_age", "too_far_in_future"}

ZeroCounters == [r \in Reasons |-> [u \in Tenants |-> 0]]

\* CounterVec.WithLabelValues(reason, userID).Add(n)
CounterAdd(c, reason, userID, n) ==
  [c EXCEPT ![reason][userID] = c[reason][userID] + n]

(* --------------------------- truncateLines ---------------------------- *)
\* stream.Entries[i].Line = e.Line[:maxSize]
TruncatedEntry(vContext, e) ==
  IF vContext.maxLineSize # 0 /\ Len(e.line) > vContext.maxLineSize
  THEN [e EXCEPT !.line = SubSeq(e.line, 1, vContext.maxLineSize)]
  ELSE e

\* the loop of truncateLines over entries[i..]: the entries, the number of
\* truncated entries and the value left in truncatedBytes
RECURSIVE TruncateLoop(_, _, _, _, _)
TruncateLoop(vContext, entries, i, truncatedSamples, truncatedBytes) ==
  IF i > Len(entries)
  THEN [entries |-> entries, truncatedSamples |-> truncatedSamples,
        truncatedBytes |-> truncatedBytes]
  ELSE LET e == entries[i]
       IN IF vContext.maxLineSize # 0 /\ Len(e.line) > vContext.maxLineSize
          THEN TruncateLoop(vContext, [entries EXCEPT ![i] = TruncatedEntry(vContext, e)],
                            i + 1, truncatedSamples + 1,
                            Len(e.line) - vContext.maxLineSize)
          ELSE TruncateLoop(vContext, entries, i + 1, truncatedSamples, truncatedBytes)

\* a variant of truncateLines that returns early when the policy is enabled
\* instead of when it is disabled: C14 must tell it from the original
truncateLines_Inverted(vContext, stream, mSamples, mBytes) ==
  IF vContext.maxLineSizeTruncate
  THEN [stream |-> stream, mSamples |-> mSamples, mBytes |-> mBytes]
  ELSE LET r == TruncateLoop(vContext, stream.entries, 1, 0, 0)
       IN [stream |-> [stream EXCEPT !.entries = r.entries],
           mSamples |-> CounterAdd(mSamples, "line_too_long", vContext.userID, r.truncatedSamples),
           mBytes |-> CounterAdd(mBytes, "line_too_long", vContext.userID, r.truncatedBytes)]

\* Distributor.truncateLines on the stream and the mutated counters
truncateLines(vContext, stream, mSamples, mBytes) ==
  IF ~vContext.maxLineSizeTruncate
  THEN [stream |-> stream, mSamples |-> mSamples, mBytes |-> mBytes]
  ELSE LET r == TruncateLoop(vContext, stream.entries, 1, 0, 0)
       IN [stream |-> [stream EXCEPT !.entries = r.entries],
           mSamples |-> CounterAdd(mSamples, "line_too_long", vContext.userID, r.truncatedSamples),
           mBytes |-> CounterAdd(mBytes, "line_too_long", vContext.userID, r.truncatedBytes)]

(* ------------------------- parseStreamLabels -------------------------- *)
\* a variant of parseStreamLabels that caches the raw string as it came:
\* C13 must tell it from the original
parseStreamLabels_CachesRaw(vContext, key, cache) ==
  LET hit == CacheGet(cache, key)
      parsed == ParseLabels(key)
      verr == ValidateLabels(vContext, parsed.ls)
      lsVal == LabelsString(parsed.ls)
  IN IF hit.ok
     THEN [labels |-> hit.val, err |-> NoErr, cache |-> hit.cache]
     ELSE IF parsed.err # NoErr
     THEN [labels |-> <<>>, err |-> [kind |-> "invalid_labels", reason |-> "syntax"],
           cache |-> cache]
     ELSE IF verr # NoErr
     THEN [labels |-> <<>>, err |-> verr, cache |-> cache]
     ELSE [labels |-> lsVal, err |-> NoErr, cache |-> CacheAdd(cache, key, key)]

\* Distributor.parseStreamLabels: the label text to use, the error, the cache
parseStreamLabels(vContext, key, cache) ==
  LET hit == CacheGet(cache, key)
      parsed == ParseLabels(key)
      verr == ValidateLabels(vContext, parsed.ls)
      lsVal == LabelsString(parsed.ls)
  IN IF hit.ok
     THEN [labels |-> hit.val, err |-> NoErr, cache |-> hit.cache]
     ELSE IF parsed.err # NoErr
     THEN [labels |-> <<>>, err |-> [kind |-> "invalid_labels", reason |-> "syntax"],
           cache |-> cache]
     ELSE IF verr # NoErr
     THEN [labels |-> <<>>, err |-> verr, cache |-> cache]
     ELSE [labels |-> lsVal, err |-> NoErr, cache |-> CacheAdd(cache, key, lsVal)]

(* ------------------------------ inputs -------------------------------- *)
Entry(ts, line) == [ts |-> ts, line |-> line]
Stream(labels, entries) == [labels |-> labels, entries |-> entries]

\* label texts: {a="1"}, {b="1", a="1"} (not in canonical order),
\* {c="1"} and not_a_labelset
LabelsA == << <<(<<1>>), (<<1>>)>> >>
LabelsBA == << <<(<<2>>), (<<1>>)>>, <<(<<1>>), (<<1>>)>> >>
LabelsC == << <<(<<3>>), (<<1>>)>> >>
NotALabelset == << <<(<<9>>)>> >>

\* the streams a request is built from
Streams ==
  { Stream(LabelsA, <<Entry(0, <<7>>)>>),
    Stream(LabelsBA, <<Entry(0, <<7, 8, 9>>), Entry(0, <<7>>)>>),
    Stream(NotALabelset, <<Entry(0, <<7>>)>>) }

\* the bodies of the push requests: up to two streams
Requests ==
  {<<>>} \cup {<<s>> : s \in Streams} \cup {<<s, t>> : s \in Streams, t \in Streams}

\* what the ingester ring answers for a key: an error or a replication set
ReplicationSets ==
  {[err |-> FALSE, Instances |-> I, MaxErrors |-> m] :
     I \in (SUBSET Ingesters) \ {{}}, m \in 0..MaxMaxErrors}

RingAnswers ==
  {[err |-> TRUE, Instances |-> {}, MaxErrors |-> 0]}
    \cup {rs \in ReplicationSets : rs.MaxErrors < Cardinality(rs.Instances)}

(* ------------------------------- state -------------------------------- *)
VARIABLES
  \* the process: Distributor's fields and the metrics it owns
  labelCache, buckets, discardedSamples, discardedBytes, mutatedSamples,
  mutatedBytes, ingesterAppends, ingesterAppendFailures,
  \* the ingesters: the streams of the Push RPC made to each address
  payload,
  \* the environment: the clock, the caller's context
  now, ctxCancelled,
  \* Push: its position, its arguments and its locals
  pushPC, returnedAt, result, userID, req, stream, streams, keys, validationErr,
  replicationSets, streamsByIngester,
  \* pushTracker
  pending, failed, done, err,
  \* the fan-out goroutines, by ingester address
  taskPC, taskIdx, taskErr,
  \* history: the addresses whose goroutine was still running when Push returned
  runningAtReturn,
  \* history: the number of calls of Push so far
  calls

processVars == <<labelCache, buckets, discardedSamples, discardedBytes, mutatedSamples,
                 mutatedBytes>>
rpcVars == <<ingesterAppends, ingesterAppendFailures, payload>>
envVars == <<now>>
pushVars == <<pushPC, returnedAt, result, runningAtReturn>>
localVars == <<userID, req, stream, keys, validationErr, replicationSets, streamsByIngester,
               calls>>
trackerVars == <<streams, pending, failed, done, err>>
taskVars == <<taskPC, taskIdx, taskErr>>

vars == <<labelCache, buckets, discardedSamples, discardedBytes, mutatedSamples,
          mutatedBytes, ingesterAppends, ingesterAppendFailures, payload, now,
          ctxCancelled, pushPC, returnedAt, result, userID, req, stream, streams,
          keys, validationErr, replicationSets, streamsByIngester, pending, failed,
          done, err, taskPC, taskIdx, taskErr, runningAtReturn, calls>>

NoStream == Stream(<<>>, <<>>)
NoResult == [resp |-> "nil", err |-> NoErr]

\* the state after New: empty cache, no bucket, zeroed metrics; no request yet
Init ==
  /\ labelCache = <<>>
  /\ buckets = NoBuckets
  /\ discardedSamples = ZeroCounters
  /\ discardedBytes = ZeroCounters
  /\ mutatedSamples = ZeroCounters
  /\ mutatedBytes = ZeroCounters
  /\ ingesterAppends = [a \in Ingesters |-> 0]
  /\ ingesterAppendFailures = [a \in Ingesters |-> 0]
  /\ payload = [a \in Ingesters |-> <<>>]
  /\ now = 0
  /\ ctxCancelled = FALSE
  /\ pushPC = "start"
  /\ returnedAt = 0
  /\ result = NoResult
  /\ userID = NoTenant
  /\ req = <<>>
  /\ stream = NoStream
  /\ streams = <<>>
  /\ keys = <<>>
  /\ validationErr = NoErr
  /\ replicationSets = <<>>
  /\ streamsByIngester = [a \in Ingesters |-> <<>>]
  /\ pending = 0
  /\ failed = FALSE
  /\ done = <<>>
  /\ err = <<>>
  /\ taskPC = [a \in Ingesters |-> "idle"]
  /\ taskIdx = [a \in Ingesters |-> 0]
  /\ taskErr = [a \in Ingesters |-> NoErr]
  /\ runningAtReturn = {}
  /\ calls = 0

(* -------------------------------- Push -------------------------------- *)
\* a variant of EntriesLoop that adds an entry to validatedSamplesSize and
\* validatedSamplesCount before ValidateEntry has its say: C29 must tell it
\* from the original
RECURSIVE EntriesLoop_CountsRejected(_, _, _, _)
EntriesLoop_CountsRejected(vContext, entries, i, acc) ==
  IF i > Len(entries) THEN acc
  ELSE LET entry == entries[i]
           e == ValidateEntry(vContext, entry)
       IN IF e # NoErr
          THEN EntriesLoop_CountsRejected(vContext, entries, i + 1,
                 [acc EXCEPT !.validationErr = e,
                    !.size = @ + Len(entry.line),
                    !.count = @ + 1,
                    !.dSamples = CounterAdd(@, e.reason, vContext.userID, 1),
                    !.dBytes = CounterAdd(@, e.reason, vContext.userID, Len(entry.line))])
          ELSE EntriesLoop_CountsRejected(vContext, entries, i + 1,
                 [acc EXCEPT !.kept = Append(@, entry),
                    !.size = @ + Len(entry.line),
                    !.count = @ + 1])

\* the loop over stream.Entries (lines 266-277): acc holds the entries kept,
\* validatedSamplesSize, validatedSamplesCount, validationErr and the
\* discarded counters ValidateEntry advances
RECURSIVE EntriesLoop(_, _, _, _)
EntriesLoop(vContext, entries, i, acc) ==
  IF i > Len(entries) THEN acc
  ELSE LET entry == entries[i]
           e == ValidateEntry(vContext, entry)
       IN IF e # NoErr
          THEN EntriesLoop(vContext, entries, i + 1,
                 [acc EXCEPT !.validationErr = e,
                    !.dSamples = CounterAdd(@, e.reason, vContext.userID, 1),
                    !.dBytes = CounterAdd(@, e.reason, vContext.userID, Len(entry.line))])
          ELSE EntriesLoop(vContext, entries, i + 1,
                 [acc EXCEPT !.kept = Append(@, entry),
                    !.size = @ + Len(entry.line),
                    !.count = @ + 1])

\* lines 266-280: the stream s, its labels parsed, with the entries acc.kept
\* that passed ValidateEntry, is appended to streams and its key to keys
StreamKept(vContext, st, s, acc) ==
  [st EXCEPT !.stream = [s EXCEPT !.entries = acc.kept],
             !.size = acc.size, !.count = acc.count,
             !.validationErr = acc.validationErr,
             !.dSamples = acc.dSamples, !.dBytes = acc.dBytes,
             !.keys = Append(@, TokenFor(vContext.userID, s.labels)),
             !.streams = Append(@, [stream |-> "&stream", successBucket |-> 0,
                                    failureBucket |-> 0])]

\* a variant of StreamDiscarded that adds the bytes to the samples counter
\* and the entries to the bytes counter: C17 must tell it from the original
StreamDiscarded_Swapped(vContext, st, s, e) ==
  [st EXCEPT !.stream = s,
             !.validationErr = e,
             !.dBytes = CounterAdd(@, "invalid_labels", vContext.userID, Len(s.entries)),
             !.dSamples = CounterAdd(@, "invalid_labels", vContext.userID,
                                   SumSeq([k \in 1..Len(s.entries) |-> Len(s.entries[k].line)]))]

\* lines 255-264: the stream s is dropped for the error e of parseStreamLabels
StreamDiscarded(vContext, st, s, e) ==
  [st EXCEPT !.stream = s,
             !.validationErr = e,
             !.dSamples = CounterAdd(@, "invalid_labels", vContext.userID, Len(s.entries)),
             !.dBytes = CounterAdd(@, "invalid_labels", vContext.userID,
                                   SumSeq([k \in 1..Len(s.entries) |-> Len(s.entries[k].line)]))]

\* a variant of AfterParse that leaves stream.Labels as it came in the
\* request instead of storing what parseStreamLabels returned: C20 must tell
\* it from the original
AfterParse_RawLabels(vContext, st, s, p) ==
  IF p.err # NoErr
  THEN StreamDiscarded(vContext, [st EXCEPT !.cache = p.cache], s, p.err)
  ELSE StreamKept(vContext, [st EXCEPT !.cache = p.cache], s,
                  EntriesLoop(vContext, s.entries, 1,
                    [kept |-> <<>>, size |-> st.size, count |-> st.count,
                     validationErr |-> st.validationErr,
                     dSamples |-> st.dSamples, dBytes |-> st.dBytes]))

\* lines 254-280, p being what parseStreamLabels returned for the stream s
AfterParse(vContext, st, s, p) ==
  IF p.err # NoErr
  THEN StreamDiscarded(vContext, [st EXCEPT !.cache = p.cache],
                       [s EXCEPT !.labels = p.labels], p.err)
  ELSE StreamKept(vContext, [st EXCEPT !.cache = p.cache],
                  [s EXCEPT !.labels = p.labels],
                  EntriesLoop(vContext, s.entries, 1,
                    [kept |-> <<>>, size |-> st.size, count |-> st.count,
                     validationErr |-> st.validationErr,
                     dSamples |-> st.dSamples, dBytes |-> st.dBytes]))

\* lines 252-280, t being what truncateLines left of the stream
AfterTruncate(vContext, st, t) ==
  AfterParse(vContext, [st EXCEPT !.mSamples = t.mSamples, !.mBytes = t.mBytes],
             t.stream, parseStreamLabels(vContext, t.stream.labels, st.cache))

\* one iteration of the loop over req.Streams (lines 245-281) on the loop
\* variable s: st holds the locals of Push and the process state it writes.
\* Every streamTracker holds &stream, the address of the one loop variable.
StreamStep(vContext, st, s) ==
  IF Len(s.entries) = 0 THEN [st EXCEPT !.stream = s]
  ELSE AfterTruncate(vContext, st, truncateLines(vContext, s, st.mSamples, st.mBytes))

RECURSIVE StreamsLoop(_, _, _, _)
StreamsLoop(vContext, ss, i, st) ==
  IF i > Len(ss) THEN st
  ELSE StreamsLoop(vContext, ss, i + 1, StreamStep(vContext, st, ss[i]))

\* the locals of Push after the loop over req.Streams (lines 237-281)
Prepared(u, r, t) ==
  StreamsLoop(getValidationContextForTime(t, u), r, 1,
    [streams |-> <<>>, keys |-> <<>>, size |-> 0, count |-> 0,
     validationErr |-> NoErr, stream |-> NoStream, cache |-> labelCache,
     dSamples |-> discardedSamples, dBytes |-> discardedBytes,
     mSamples |-> mutatedSamples, mBytes |-> mutatedBytes])

\* the views of the ingester ring a request can find: an answer per key
RingViews == [Tokens -> RingAnswers]

\* ingestersRing.Get(key, ring.Write) on the view the request finds
RingGet(view, key) == view[key]

\* a variant of LookupFails that minds the error of the last lookup only:
\* C38 must tell it from the original
LookupFails_LastKeyOnly(view, ks) == RingGet(view, ks[Len(ks)]).err

\* the loop over keys (lines 300-313) stops at the first lookup error
LookupFails(view, ks) == \E i \in 1..Len(ks) : RingGet(view, ks[i]).err

\* the answers the ring gave to the lookups of the loop over keys until it
\* stopped at an error (line 303)
LookupsMade(view, ks) ==
  LET first == CHOOSE i \in 1..Len(ks) :
                 /\ RingGet(view, ks[i]).err
                 /\ \A j \in 1..(i - 1) : ~RingGet(view, ks[j]).err
  IN [i \in 1..first |-> RingGet(view, ks[i])]

\* a variant of TrackersInitialised that stores nothing: the buckets stay at
\* the zero they were made with at line 280. C31 must tell it from the original
TrackersInitialised_Unset(view, trackers, ks) ==
  [i \in 1..Len(trackers) |-> trackers[i]]

\* streams[i] with its buckets stored (lines 306-307)
TrackersInitialised(view, trackers, ks) ==
  [i \in 1..Len(trackers) |->
     [trackers[i] EXCEPT
        !.successBucket = Cardinality(RingGet(view, ks[i]).Instances)
                            - RingGet(view, ks[i]).MaxErrors,
        !.failureBucket = RingGet(view, ks[i]).MaxErrors]]

\* streamsByIngester (lines 309-312): per address the trackers, as indexes
\* into streams, in the order of the loop over keys
GroupByIngester(view, ks) ==
  [a \in Ingesters |->
     SortedSeq({i \in 1..Len(ks) : a \in RingGet(view, ks[i]).Instances})]

\* a variant of RateLimitedErr that reports the bytes as the entry count and
\* the entry count as the bytes: C10 must tell it from the original
RateLimitedErr_Swapped(u, limit, count, size) ==
  [kind |-> "rate_limited", code |-> 429, userID |-> u, limit |-> limit,
   count |-> size, size |-> count]

\* the error of line 293: httpgrpc.Errorf(429, RateLimitedErrorMsg, ...)
RateLimitedErr(u, limit, count, size) ==
  [kind |-> "rate_limited", code |-> 429, userID |-> u, limit |-> limit,
   count |-> count, size |-> size]

Return(line, resp, e) ==
  /\ pushPC' = "returned"
  /\ returnedAt' = line
  /\ result' = [resp |-> resp, err |-> e]
  /\ runningAtReturn' = {a \in Ingesters : taskPC[a] \notin {"idle", "finished"}}

\* Push from line 283 to the select (lines 283-332): st holds the locals
\* after the loop over req.Streams, allow what AllowN answered
PushPrepared(u, view, st, allow) ==
  /\ labelCache' = st.cache
  /\ mutatedSamples' = st.mSamples
  /\ mutatedBytes' = st.mBytes
  /\ stream' = st.stream
  /\ validationErr' = st.validationErr
  /\ IF Len(st.streams) = 0
     THEN /\ Return(285, "empty", st.validationErr)
          /\ discardedSamples' = st.dSamples
          /\ discardedBytes' = st.dBytes
          /\ UNCHANGED <<buckets, streams, keys, replicationSets, streamsByIngester,
                         pending, taskPC>>
     ELSE IF ~allow.ok
     THEN /\ Return(293, "nil", RateLimitedErr(u, Limit(now, u), st.count, st.size))
          /\ discardedSamples' = CounterAdd(st.dSamples, "rate_limited", u, st.count)
          /\ discardedBytes' = CounterAdd(st.dBytes, "rate_limited", u, st.size)
          /\ buckets' = allow.buckets
          /\ UNCHANGED <<streams, keys, replicationSets, streamsByIngester,
                         pending, taskPC>>
     ELSE /\ discardedSamples' = st.dSamples
          /\ discardedBytes' = st.dBytes
          /\ buckets' = allow.buckets
          /\ keys' = st.keys
          /\ IF LookupFails(view, st.keys)
             THEN /\ Return(303, "nil", [kind |-> "ring"])
                  /\ replicationSets' = LookupsMade(view, st.keys)
                  /\ UNCHANGED <<streams, streamsByIngester, pending, taskPC>>
             ELSE /\ streams' = TrackersInitialised(view, st.streams, st.keys)
                  /\ replicationSets' =
                       [i \in 1..Len(st.keys) |-> RingGet(view, st.keys[i])]
                  /\ streamsByIngester' = GroupByIngester(view, st.keys)
                  /\ pending' = Len(st.streams)
                  /\ taskPC' = [a \in Ingesters |->
                                  IF GroupByIngester(view, st.keys)[a] # <<>>
                                  THEN "rpc" ELSE "idle"]
                  /\ pushPC' = "select"
                  /\ UNCHANGED <<returnedAt, result, runningAtReturn>>

\* a variant of Push that answers a request without streams with neither a
\* response nor an error: C18 must tell it from the original
Push_EmptyReturnsNil(u, r, view) ==
  /\ pushPC = "start"
  /\ req' = r
  /\ userID' = u
  /\ calls' = calls + 1
  /\ UNCHANGED <<envVars, ctxCancelled, rpcVars, taskIdx, taskErr, failed, done, err>>
  /\ IF u = NoTenant
     THEN /\ Return(226, "nil", [kind |-> "no_org_id"])
          /\ UNCHANGED <<processVars, stream, streams, keys, validationErr,
                         replicationSets, streamsByIngester, pending, taskPC>>
     ELSE IF Len(r) = 0
     THEN /\ Return(231, "nil", NoErr)
          /\ UNCHANGED <<processVars, stream, streams, keys, validationErr,
                         replicationSets, streamsByIngester, pending, taskPC>>
     ELSE \E st \in {Prepared(u, r, now)} :
            \E allow \in {AllowN(buckets, now, u, st.size)} :
              PushPrepared(u, view, st, allow)

\* a variant of Push that looks for the tenant id only after the check for
\* an empty request: C19 must tell it from the original
Push_AuthAfterEmpty(u, r, view) ==
  /\ pushPC = "start"
  /\ req' = r
  /\ userID' = u
  /\ calls' = calls + 1
  /\ UNCHANGED <<envVars, ctxCancelled, rpcVars, taskIdx, taskErr, failed, done, err>>
  /\ IF Len(r) = 0
     THEN /\ Return(231, "empty", NoErr)
          /\ UNCHANGED <<processVars, stream, streams, keys, validationErr,
                         replicationSets, streamsByIngester, pending, taskPC>>
     ELSE IF u = NoTenant
     THEN /\ Return(226, "nil", [kind |-> "no_org_id"])
          /\ UNCHANGED <<processVars, stream, streams, keys, validationErr,
                         replicationSets, streamsByIngester, pending, taskPC>>
     ELSE \E st \in {Prepared(u, r, now)} :
            \E allow \in {AllowN(buckets, now, u, st.size)} :
              PushPrepared(u, view, st, allow)

\* a variant of Push that asks the limiter about one bucket for all tenants:
\* C11 must tell it from the original
Push_SharedBucket(u, r, view) ==
  /\ pushPC = "start"
  /\ req' = r
  /\ userID' = u
  /\ calls' = calls + 1
  /\ UNCHANGED <<envVars, ctxCancelled, rpcVars, taskIdx, taskErr, failed, done, err>>
  /\ IF u = NoTenant
     THEN /\ Return(226, "nil", [kind |-> "no_org_id"])
          /\ UNCHANGED <<processVars, stream, streams, keys, validationErr,
                         replicationSets, streamsByIngester, pending, taskPC>>
     ELSE IF Len(r) = 0
     THEN /\ Return(231, "empty", NoErr)
          /\ UNCHANGED <<processVars, stream, streams, keys, validationErr,
                         replicationSets, streamsByIngester, pending, taskPC>>
     ELSE \E st \in {Prepared(u, r, now)} :
            \E allow \in {AllowN(buckets, now, "A", st.size)} :
              PushPrepared(u, view, st, allow)

\* Push from its entry to the select (lines 223-332), on request body r from
\* a caller whose context carries tenant id u (NoTenant: none), the ring
\* answering its lookups from view
Push(u, r, view) ==
  /\ pushPC = "start"
  /\ req' = r
  /\ userID' = u
  /\ calls' = calls + 1
  /\ UNCHANGED <<envVars, ctxCancelled, rpcVars, taskIdx, taskErr, failed, done, err>>
  /\ IF u = NoTenant
     THEN /\ Return(226, "nil", [kind |-> "no_org_id"])
          /\ UNCHANGED <<processVars, stream, streams, keys, validationErr,
                         replicationSets, streamsByIngester, pending, taskPC>>
     ELSE IF Len(r) = 0
     THEN /\ Return(231, "empty", NoErr)
          /\ UNCHANGED <<processVars, stream, streams, keys, validationErr,
                         replicationSets, streamsByIngester, pending, taskPC>>
     ELSE \E st \in {Prepared(u, r, now)} :
            \E allow \in {AllowN(buckets, now, u, st.size)} :
              PushPrepared(u, view, st, allow)

\* the caller cancels its context while Push has not returned
CallerCancel ==
  /\ pushPC # "returned"
  /\ ~ctxCancelled
  /\ ctxCancelled' = TRUE
  /\ UNCHANGED <<processVars, rpcVars, envVars, pushVars, localVars, trackerVars, taskVars>>

(* --------------------------- sendToIngester --------------------------- *)
\* what executePushRequest returns: nil, the pool's error or the RPC's error
\* (a remote_timeout expiry is an RPC error: the RPC returns the error of its
\* context, whose deadline line 324 sets)
PoolErr(a) == [kind |-> "pool", addr |-> a]
RpcErr(a) == [kind |-> "rpc", addr |-> a]
TimeoutErr(a) == [kind |-> "timeout", addr |-> a]

\* the goroutine of address a moves on to its next stream, or ends
Advance(a) ==
  IF taskIdx[a] >= Len(streamsByIngester[a])
  THEN /\ taskPC' = [taskPC EXCEPT ![a] = "finished"]
       /\ UNCHANGED taskIdx
  ELSE /\ taskPC' = [taskPC EXCEPT ![a] = "loop"]
       /\ taskIdx' = [taskIdx EXCEPT ![a] = taskIdx[a] + 1]

\* payload[i] = *s.stream (lines 366-369): what each tracker of the address
\* points at when the goroutine reads it, which is the loop variable of Push
\* as its loop left it
Payload(a) == [k \in 1..Len(streamsByIngester[a]) |-> stream]

\* a variant of ExecutePushRequest whose RPC is tied to the caller's context:
\* it cannot complete once the caller has cancelled. C9 must tell it from the
\* original
ExecutePushRequest_CallerCtx(a, e) ==
  /\ taskPC[a] = "rpc"
  /\ ~ctxCancelled
  /\ taskErr' = [taskErr EXCEPT ![a] = e]
  /\ payload' = [payload EXCEPT ![a] = Payload(a)]
  /\ ingesterAppends' = [ingesterAppends EXCEPT ![a] = @ + 1]
  /\ ingesterAppendFailures' =
       [ingesterAppendFailures EXCEPT ![a] = IF e = NoErr THEN @ ELSE @ + 1]
  /\ taskPC' = [taskPC EXCEPT ![a] = "loop"]
  /\ taskIdx' = [taskIdx EXCEPT ![a] = 1]
  /\ UNCHANGED <<processVars, envVars, ctxCancelled, pushVars, localVars, trackerVars>>

\* a variant of ExecutePushRequest that makes the RPC a second time when the
\* first attempt fails: C21 must tell it from the original
ExecutePushRequest_Retry(a, e) ==
  /\ taskPC[a] = "rpc"
  /\ taskErr' = [taskErr EXCEPT ![a] = e]
  /\ IF e.kind = "pool"
     THEN UNCHANGED rpcVars
     ELSE /\ payload' = [payload EXCEPT ![a] = Payload(a)]
          /\ ingesterAppends' = [ingesterAppends EXCEPT ![a] = @ + 1]
          /\ ingesterAppendFailures' =
               [ingesterAppendFailures EXCEPT ![a] = IF e = NoErr THEN @ ELSE @ + 1]
  /\ IF e.kind = "rpc" /\ ingesterAppends[a] = 0
     THEN UNCHANGED <<taskPC, taskIdx>>
     ELSE /\ taskPC' = [taskPC EXCEPT ![a] = "loop"]
          /\ taskIdx' = [taskIdx EXCEPT ![a] = 1]
  /\ UNCHANGED <<processVars, envVars, ctxCancelled, pushVars, localVars, trackerVars>>

\* a variant of ExecutePushRequest after which a goroutine that got no client
\* from the pool ends without touching the trackers: C34 must tell it from
\* the original
ExecutePushRequest_PoolErrIgnored(a, e) ==
  /\ taskPC[a] = "rpc"
  /\ taskErr' = [taskErr EXCEPT ![a] = e]
  /\ IF e.kind = "pool"
     THEN /\ UNCHANGED rpcVars
          /\ taskPC' = [taskPC EXCEPT ![a] = "finished"]
          /\ taskIdx' = [taskIdx EXCEPT ![a] = Len(streamsByIngester[a])]
     ELSE /\ payload' = [payload EXCEPT ![a] = Payload(a)]
          /\ ingesterAppends' = [ingesterAppends EXCEPT ![a] = @ + 1]
          /\ ingesterAppendFailures' =
               [ingesterAppendFailures EXCEPT ![a] = IF e = NoErr THEN @ ELSE @ + 1]
          /\ taskPC' = [taskPC EXCEPT ![a] = "loop"]
          /\ taskIdx' = [taskIdx EXCEPT ![a] = 1]
  /\ UNCHANGED <<processVars, envVars, ctxCancelled, pushVars, localVars, trackerVars>>

\* executePushRequest (lines 405-418) returns e to sendToIngester (line 371)
ExecutePushRequest(a, e) ==
  /\ taskPC[a] = "rpc"
  /\ taskErr' = [taskErr EXCEPT ![a] = e]
  /\ IF e.kind = "pool"
     THEN UNCHANGED rpcVars
     ELSE /\ payload' = [payload EXCEPT ![a] = Payload(a)]
          /\ ingesterAppends' = [ingesterAppends EXCEPT ![a] = @ + 1]
          /\ ingesterAppendFailures' =
               [ingesterAppendFailures EXCEPT ![a] = IF e = NoErr THEN @ ELSE @ + 1]
  /\ taskPC' = [taskPC EXCEPT ![a] = "loop"]
  /\ taskIdx' = [taskIdx EXCEPT ![a] = 1]
  /\ UNCHANGED <<processVars, envVars, ctxCancelled, pushVars, localVars, trackerVars>>

\* the tracker the goroutine of address a is at
Current(a) == streamsByIngester[a][taskIdx[a]]

\* streams[i].successBucket.Dec() > 0 (line 379)
DecSuccessBucket(a) ==
  /\ taskPC[a] = "loop"
  /\ taskErr[a] = NoErr
  /\ streams' = [streams EXCEPT ![Current(a)].successBucket = @ - 1]
  /\ IF streams[Current(a)].successBucket - 1 > 0
     THEN Advance(a)
     ELSE /\ taskPC' = [taskPC EXCEPT ![a] = "pending"]
          /\ UNCHANGED taskIdx
  /\ UNCHANGED <<processVars, rpcVars, envVars, ctxCancelled, pushVars, localVars,
                 pending, failed, done, err, taskErr>>

\* a variant of DecPending that signals done whenever the counter is at or
\* below zero: C4 must tell it from the original
DecPending_AtMostZero(a) ==
  /\ taskPC[a] = "pending"
  /\ pending' = pending - 1
  /\ IF pending - 1 <= 0
     THEN /\ taskPC' = [taskPC EXCEPT ![a] = "send_done"]
          /\ UNCHANGED taskIdx
     ELSE Advance(a)
  /\ UNCHANGED <<processVars, rpcVars, envVars, ctxCancelled, pushVars, localVars,
                 streams, failed, done, err, taskErr>>

\* pushTracker.pending.Dec() == 0 (line 382)
DecPending(a) ==
  /\ taskPC[a] = "pending"
  /\ pending' = pending - 1
  /\ IF pending - 1 = 0
     THEN /\ taskPC' = [taskPC EXCEPT ![a] = "send_done"]
          /\ UNCHANGED taskIdx
     ELSE Advance(a)
  /\ UNCHANGED <<processVars, rpcVars, envVars, ctxCancelled, pushVars, localVars,
                 streams, failed, done, err, taskErr>>

\* a variant of SendDone on a channel made without buffer: the send waits
\* for Push to be at its select. C39 must tell it from the original
SendDone_Unbuffered(a) ==
  /\ taskPC[a] = "send_done"
  /\ pushPC = "select"
  /\ Len(done) < 1
  /\ done' = Append(done, a)
  /\ Advance(a)
  /\ UNCHANGED <<processVars, rpcVars, envVars, ctxCancelled, pushVars, localVars,
                 streams, pending, failed, err, taskErr>>

\* pushTracker.done <- struct{}{} (line 383): blocks while the buffer is full
SendDone(a) ==
  /\ taskPC[a] = "send_done"
  /\ Len(done) < 1
  /\ done' = Append(done, a)
  /\ Advance(a)
  /\ UNCHANGED <<processVars, rpcVars, envVars, ctxCancelled, pushVars, localVars,
                 streams, pending, failed, err, taskErr>>

\* a variant of DecFailureBucket that takes the stream for exhausted only
\* when the decrement lands on zero: C25 must tell it from the original
DecFailureBucket_OnlyAtZero(a) ==
  /\ taskPC[a] = "loop"
  /\ taskErr[a] # NoErr
  /\ streams' = [streams EXCEPT ![Current(a)].failureBucket = @ - 1]
  /\ IF streams[Current(a)].failureBucket - 1 # 0
     THEN Advance(a)
     ELSE /\ taskPC' = [taskPC EXCEPT ![a] = "swap"]
          /\ UNCHANGED taskIdx
  /\ UNCHANGED <<processVars, rpcVars, envVars, ctxCancelled, pushVars, localVars,
                 pending, failed, done, err, taskErr>>

\* streams[i].failureBucket.Dec() > 0 (line 394)
DecFailureBucket(a) ==
  /\ taskPC[a] = "loop"
  /\ taskErr[a] # NoErr
  /\ streams' = [streams EXCEPT ![Current(a)].failureBucket = @ - 1]
  /\ IF streams[Current(a)].failureBucket - 1 > 0
     THEN Advance(a)
     ELSE /\ taskPC' = [taskPC EXCEPT ![a] = "swap"]
          /\ UNCHANGED taskIdx
  /\ UNCHANGED <<processVars, rpcVars, envVars, ctxCancelled, pushVars, localVars,
                 pending, failed, done, err, taskErr>>

\* a variant of SwapFailed that goes on to send its error whatever the flag
\* held before: C24 must tell it from the original
SwapFailed_Always(a) ==
  /\ taskPC[a] = "swap"
  /\ failed' = TRUE
  /\ taskPC' = [taskPC EXCEPT ![a] = "send_err"]
  /\ UNCHANGED taskIdx
  /\ UNCHANGED <<processVars, rpcVars, envVars, ctxCancelled, pushVars, localVars,
                 streams, pending, done, err, taskErr>>

\* !pushTracker.failed.Swap(true) (line 397)
SwapFailed(a) ==
  /\ taskPC[a] = "swap"
  /\ failed' = TRUE
  /\ IF ~failed
     THEN /\ taskPC' = [taskPC EXCEPT ![a] = "send_err"]
          /\ UNCHANGED taskIdx
     ELSE Advance(a)
  /\ UNCHANGED <<processVars, rpcVars, envVars, ctxCancelled, pushVars, localVars,
                 streams, pending, done, err, taskErr>>

\* pushTracker.err <- err (line 398): blocks while the buffer is full
SendErr(a) ==
  /\ taskPC[a] = "send_err"
  /\ Len(err) < 1
  /\ err' = Append(err, taskErr[a])
  /\ Advance(a)
  /\ UNCHANGED <<processVars, rpcVars, envVars, ctxCancelled, pushVars, localVars,
                 streams, pending, failed, done, taskErr>>

(* ----------------------------- the select ----------------------------- *)
\* case err := <-tracker.err (lines 335-336)
SelectErr ==
  /\ pushPC = "select"
  /\ Len(err) > 0
  /\ err' = Tail(err)
  /\ Return(336, "nil", Head(err))
  /\ UNCHANGED <<processVars, rpcVars, envVars, ctxCancelled, localVars,
                 streams, pending, failed, done, taskVars>>

\* a variant of SelectDone that returns neither a response nor an error:
\* C7 must tell it from the original
SelectDone_NoResponse ==
  /\ pushPC = "select"
  /\ Len(done) > 0
  /\ done' = Tail(done)
  /\ Return(338, "nil", NoErr)
  /\ UNCHANGED <<processVars, rpcVars, envVars, ctxCancelled, localVars,
                 streams, pending, failed, err, taskVars>>

\* case <-tracker.done (lines 337-338)
SelectDone ==
  /\ pushPC = "select"
  /\ Len(done) > 0
  /\ done' = Tail(done)
  /\ Return(338, "empty", validationErr)
  /\ UNCHANGED <<processVars, rpcVars, envVars, ctxCancelled, localVars,
                 streams, pending, failed, err, taskVars>>

\* a variant of SelectCtxDone that waits until every goroutine has ended:
\* C8 must tell it from the original
SelectCtxDone_AfterTasks ==
  /\ pushPC = "select"
  /\ ctxCancelled
  /\ \A a \in Ingesters : taskPC[a] \in {"idle", "finished"}
  /\ Return(340, "nil", [kind |-> "context_canceled"])
  /\ UNCHANGED <<processVars, rpcVars, envVars, ctxCancelled, localVars,
                 trackerVars, taskVars>>

\* case <-ctx.Done() (lines 339-340)
SelectCtxDone ==
  /\ pushPC = "select"
  /\ ctxCancelled
  /\ Return(340, "nil", [kind |-> "context_canceled"])
  /\ UNCHANGED <<processVars, rpcVars, envVars, ctxCancelled, localVars,
                 trackerVars, taskVars>>

(* -------------------------- the specification ------------------------- *)
\* the callers of Push: tenant A, and a caller without tenant id
Callers == {"A", NoTenant}

\* a caller calls Push
Call ==
  /\ pushPC = "start"
  /\ \E u \in Callers, r \in Requests, view \in RingViews : Push(u, r, view)

Next ==
  \/ Call
  \/ CallerCancel
  \/ \E a \in Ingesters : \E e \in {NoErr, RpcErr(a)} : ExecutePushRequest(a, e)
  \/ \E a \in Ingesters : DecSuccessBucket(a)
  \/ \E a \in Ingesters : DecPending(a)
  \/ \E a \in Ingesters : SendDone(a)
  \/ \E a \in Ingesters : DecFailureBucket(a)
  \/ \E a \in Ingesters : SwapFailed(a)
  \/ \E a \in Ingesters : SendErr(a)
  \/ SelectErr
  \/ SelectDone
  \/ SelectCtxDone

Spec == Init /\ [][Next]_vars

(* ------------- a series of calls on one Distributor ------------------- *)
\* the calls of Push a behaviour of SpecSeries makes
MaxCalls == 2
\* how far the clock advances
MaxNow == 1

\* label texts: {a="1", b="1"}, the canonical spelling of LabelsBA, and
\* {aa="1"}, whose name is too long for tenant A and not for tenant B
LabelsAB == << <<(<<1>>), (<<1>>)>>, <<(<<2>>), (<<1>>)>> >>
LabelsLong == << <<(<<1, 1>>), (<<1>>)>> >>

\* the streams the requests of a series are built from
SeriesStreams ==
  { Stream(LabelsBA, <<Entry(0, <<7, 8, 9>>), Entry(0, <<7>>)>>),
    Stream(LabelsAB, <<Entry(0, <<7>>)>>),
    Stream(NotALabelset, <<Entry(0, <<7>>)>>),
    Stream(LabelsLong, <<Entry(0, <<7, 8, 9>>)>>) }

\* streams without entries
NoEntries == Stream(LabelsAB, <<>>)
NoEntriesC == Stream(LabelsC, <<>>)

SeriesRequests ==
  {<<>>} \cup {<<s>> : s \in SeriesStreams}
         \cup {<<s, t>> : s \in SeriesStreams, t \in SeriesStreams}
         \cup {<<NoEntries>>, <<NoEntries, Stream(NotALabelset, <<Entry(0, <<7>>)>>)>>,
               <<Stream(LabelsAB, <<Entry(0, <<7>>)>>), NoEntriesC>>}

\* an ingester ring whose membership does not change: every key has its
\* replication set, the same at every lookup
StableRing ==
  [k \in Tokens |->
     IF k = 0 THEN [err |-> FALSE, Instances |-> {1}, MaxErrors |-> 0]
     ELSE [err |-> FALSE, Instances |-> {1, 2}, MaxErrors |-> 1]]

\* a caller, with or without tenant id, calls Push while the ring is stable
SeriesCall ==
  /\ pushPC = "start"
  /\ calls < MaxCalls
  /\ \E u \in Tenants \cup {NoTenant}, r \in SeriesRequests : Push(u, r, StableRing)

\* time passes between two calls (Push reads the clock at lines 243 and 288)
Tick ==
  /\ pushPC = "start"
  /\ now < MaxNow
  /\ now' = now + 1
  /\ UNCHANGED <<processVars, rpcVars, ctxCancelled, pushVars, localVars, trackerVars,
                 taskVars>>

\* the call has returned and its goroutines have ended: what was local to it
\* is gone, the Distributor keeps its cache, its limiter and its metrics
NextCall ==
  /\ pushPC = "returned"
  /\ \A a \in Ingesters : taskPC[a] \in {"idle", "finished"}
  /\ pushPC' = "start"
  /\ returnedAt' = 0
  /\ result' = NoResult
  /\ runningAtReturn' = {}
  /\ ctxCancelled' = FALSE
  /\ userID' = NoTenant
  /\ req' = <<>>
  /\ stream' = NoStream
  /\ streams' = <<>>
  /\ keys' = <<>>
  /\ validationErr' = NoErr
  /\ replicationSets' = <<>>
  /\ streamsByIngester' = [a \in Ingesters |-> <<>>]
  /\ pending' = 0
  /\ failed' = FALSE
  /\ done' = <<>>
  /\ err' = <<>>
  /\ taskPC' = [a \in Ingesters |-> "idle"]
  /\ taskIdx' = [a \in Ingesters |-> 0]
  /\ taskErr' = [a \in Ingesters |-> NoErr]
  /\ payload' = [a \in Ingesters |-> <<>>]
  /\ UNCHANGED <<processVars, ingesterAppends, ingesterAppendFailures, envVars, calls>>

SeriesNext ==
  \/ SeriesCall
  \/ Tick
  \/ NextCall
  \/ CallerCancel
  \/ \E a \in Ingesters : \E e \in {NoErr, RpcErr(a)} : ExecutePushRequest(a, e)
  \/ \E a \in Ingesters : DecSuccessBucket(a)
  \/ \E a \in Ingesters : DecPending(a)
  \/ \E a \in Ingesters : SendDone(a)
  \/ \E a \in Ingesters : DecFailureBucket(a)
  \/ \E a \in Ingesters : SwapFailed(a)
  \/ \E a \in Ingesters : SendErr(a)
  \/ SelectErr
  \/ SelectDone
  \/ SelectCtxDone

SpecSeries == Init /\ [][SeriesNext]_vars

(* ----------- the fan-out when the client pool can fail too ------------ *)
\* the replication sets the ring of SpecFanOut answers with: one address;
\* two and three addresses of which one may fail; two that must both succeed
FanOutAnswers ==
  { [err |-> FALSE, Instances |-> {1}, MaxErrors |-> 0],
    [err |-> FALSE, Instances |-> {1, 2}, MaxErrors |-> 1],
    [err |-> FALSE, Instances |-> {2, 3}, MaxErrors |-> 0],
    [err |-> FALSE, Instances |-> {1, 2, 3}, MaxErrors |-> 1] }

FanOutViews == [Tokens -> FanOutAnswers]

\* tenant A calls Push
FanOutCall ==
  /\ pushPC = "start"
  /\ \E r \in Requests, view \in FanOutViews : Push("A", r, view)

\* executePushRequest returns nil, the error of the RPC, the error of an RPC
\* that ran into remote_timeout, or the error of the pool that has no client
\* for the address
FanOutErrs(a) == {NoErr, RpcErr(a), TimeoutErr(a), PoolErr(a)}

FanOutNext ==
  \/ FanOutCall
  \/ CallerCancel
  \/ \E a \in Ingesters : \E e \in FanOutErrs(a) : ExecutePushRequest(a, e)
  \/ \E a \in Ingesters : DecSuccessBucket(a)
  \/ \E a \in Ingesters : DecPending(a)
  \/ \E a \in Ingesters : SendDone(a)
  \/ \E a \in Ingesters : DecFailureBucket(a)
  \/ \E a \in Ingesters : SwapFailed(a)
  \/ \E a \in Ingesters : SendErr(a)
  \/ SelectErr
  \/ SelectDone
  \/ SelectCtxDone

SpecFanOut == Init /\ [][FanOutNext]_vars

(* ------------------- the fan-out under fair scheduling ---------------- *)
\* the steps of the goroutine of address a: its RPC returns, without or with
\* an error (the RPC's context ends at RemoteTimeout, line 324), and the
\* steps of sendToIngester after it
TaskStep(a) ==
  \/ \E e \in {NoErr, RpcErr(a)} : ExecutePushRequest(a, e)
  \/ DecSuccessBucket(a)
  \/ DecPending(a)
  \/ SendDone(a)
  \/ DecFailureBucket(a)
  \/ SwapFailed(a)
  \/ SendErr(a)

\* the select of Push takes a case that is ready
SelectStep == SelectErr \/ SelectDone \/ SelectCtxDone

LiveNext ==
  \/ FanOutCall
  \/ CallerCancel
  \/ \E a \in Ingesters : TaskStep(a)
  \/ SelectStep

\* the scheduler is fair to every goroutine and to Push, and every RPC
\* returns; the caller may cancel or never do so
SpecLive ==
  /\ Init
  /\ [][LiveNext]_vars
  /\ \A a \in Ingesters : WF_vars(TaskStep(a))
  /\ WF_vars(SelectStep)

(* ------------------------- truncateLines alone ------------------------ *)
\* the entries of a stream and the bytes of a line truncateLines is tried on
MaxEntries == 3
MaxLineLen == 4

\* the line of n bytes 1, 2, ..., n
LineOf(n) == [k \in 1..n |-> k]

\* the streams truncateLines is called on: one to MaxEntries entries, each
\* with a line of zero to MaxLineLen bytes
TruncateStreams ==
  UNION {{Stream(LabelsA, [k \in 1..n |-> Entry(0, LineOf(lens[k]))]) :
            lens \in [1..n -> 0..MaxLineLen]} : n \in 1..MaxEntries}

\* Push is at line 252 with the loop variable stream, for one of the tenants
InitTruncate ==
  /\ labelCache = <<>>
  /\ buckets = NoBuckets
  /\ discardedSamples = ZeroCounters
  /\ discardedBytes = ZeroCounters
  /\ mutatedSamples = ZeroCounters
  /\ mutatedBytes = ZeroCounters
  /\ ingesterAppends = [a \in Ingesters |-> 0]
  /\ ingesterAppendFailures = [a \in Ingesters |-> 0]
  /\ payload = [a \in Ingesters |-> <<>>]
  /\ now = 0
  /\ ctxCancelled = FALSE
  /\ pushPC = "start"
  /\ returnedAt = 0
  /\ result = NoResult
  /\ userID \in Tenants
  /\ stream \in TruncateStreams
  /\ req = <<stream>>
  /\ streams = <<>>
  /\ keys = <<>>
  /\ validationErr = NoErr
  /\ replicationSets = <<>>
  /\ streamsByIngester = [a \in Ingesters |-> <<>>]
  /\ pending = 0
  /\ failed = FALSE
  /\ done = <<>>
  /\ err = <<>>
  /\ taskPC = [a \in Ingesters |-> "idle"]
  /\ taskIdx = [a \in Ingesters |-> 0]
  /\ taskErr = [a \in Ingesters |-> NoErr]
  /\ runningAtReturn = {}
  /\ calls = 0

\* d.truncateLines(validationContext, &stream) (line 252) runs to its return
\* (line 346, or the end of the function)
ApplyTruncate ==
  /\ pushPC = "start"
  /\ \E t \in {truncateLines(getValidationContextForTime(now, userID), stream,
                              mutatedSamples, mutatedBytes)} :
       /\ stream' = t.stream
       /\ mutatedSamples' = t.mSamples
       /\ mutatedBytes' = t.mBytes
  /\ pushPC' = "returned"
  /\ returnedAt' = (IF Overrides[userID].maxLineSizeTruncate THEN 361 ELSE 346)
  /\ calls' = calls + 1
  /\ UNCHANGED <<labelCache, buckets, discardedSamples, discardedBytes, rpcVars, envVars,
                 ctxCancelled, result, runningAtReturn, userID, req, keys, validationErr,
                 replicationSets, streamsByIngester, trackerVars, taskVars>>

\* the loop of Push comes to line 252 again, with another stream of the tenant
NextStream ==
  /\ pushPC = "returned"
  /\ calls < MaxCalls
  /\ \E s \in TruncateStreams : stream' = s /\ req' = <<s>>
  /\ pushPC' = "start"
  /\ returnedAt' = 0
  /\ UNCHANGED <<processVars, rpcVars, envVars, ctxCancelled, result, runningAtReturn,
                 userID, keys, validationErr, replicationSets, streamsByIngester, calls,
                 trackerVars, taskVars>>

TruncateNext == ApplyTruncate \/ NextStream

SpecTruncate == InitTruncate /\ [][TruncateNext]_vars

(* ------------------------- reading the state -------------------------- *)
\* the request got past the ring lookups: its goroutines were launched
FannedOut == pushPC = "select" \/ returnedAt \in {336, 338, 340}

\* the goroutines of the request
Launched == {a \in Ingesters : taskPC[a] # "idle"}
AllFinished == \A a \in Launched : taskPC[a] = "finished"

\* the RPC to address a has returned, without or with an error
Succeeded(a) == taskPC[a] \notin {"idle", "rpc"} /\ taskErr[a] = NoErr
Failed(a) == taskPC[a] \notin {"idle", "rpc"} /\ taskErr[a] # NoErr

\* per stream: the successes it needs, and the RPCs of its replication set
\* that have succeeded and failed so far
MinSuccess(i) == Cardinality(replicationSets[i].Instances) - replicationSets[i].MaxErrors
MaxErrors(i) == replicationSets[i].MaxErrors
Acks(i) == Cardinality({a \in replicationSets[i].Instances : Succeeded(a)})
Nacks(i) == Cardinality({a \in replicationSets[i].Instances : Failed(a)})

\* a stream is counted as having reached quorum once a success brought its
\* successBucket to zero, as exhausted once a failure brought its
\* failureBucket to zero
QuorumReached(i) == streams[i].successBucket <= 0
Exhausted(i) == streams[i].failureBucket <= 0 /\ streams[i].failureBucket < MaxErrors(i)

\* the values sent on each channel so far, and the sends under way
DoneSent == Len(done) + (IF returnedAt = 338 THEN 1 ELSE 0)
ErrSent == Len(err) + (IF returnedAt = 336 THEN 1 ELSE 0)
DoneSending == Cardinality({a \in Ingesters : taskPC[a] = "send_done"})
ErrSending == Cardinality({a \in Ingesters : taskPC[a] = "send_err"})

(* ------------------------------- claims ------------------------------- *)
\* C1: whenever Push returns success after the done signal, every surviving
\* stream has received at least |replicas| - max_errors successful RPCs.
C1_QuorumCorrectness ==
  returnedAt = 338 => \A i \in 1..Len(streams) : Acks(i) >= MinSuccess(i)

\* C2: when no stream has more failed RPCs than its max_errors and the caller
\* does not cancel, Push returns success, and a stream with 3 replicas and
\* max_errors = 1 that saw one failure and two successes ends with both
\* budgets at zero.
C2_FailureTolerance ==
  (FannedOut /\ AllFinished /\ ~ctxCancelled /\ pushPC = "returned"
     /\ \A i \in 1..Len(streams) : Nacks(i) <= MaxErrors(i))
  => /\ returnedAt = 338
     /\ \A i \in 1..Len(streams) :
          (Acks(i) = 2 /\ Nacks(i) = 1 /\ MaxErrors(i) = 1)
            => streams[i].successBucket = 0 /\ streams[i].failureBucket = 0

\* C3: once all replica RPCs of a fanned-out request have completed and been
\* applied, exactly one of the signals done and err has been produced.
C3_ExactlyOneSignal ==
  (FannedOut /\ AllFinished) => DoneSent + ErrSent = 1

\* C4: the done channel is sent to at most once and the err channel is sent
\* to at most once, counting the sends that are waiting for room in the buffer.
C4_AtMostOneSignal ==
  /\ DoneSent + DoneSending <= 1
  /\ ErrSent + ErrSending <= 1

\* C4, its case: a two-stream request whose three goroutines have all ended
\* after both a done and an err signal were produced
C4_Witness ==
  /\ Len(streams) = 2
  /\ Cardinality(Launched) = 3
  /\ AllFinished
  /\ DoneSent = 1
  /\ ErrSent = 1

\* what the caller gets, read from the returned pair
Outcome ==
  IF result.resp = "empty" /\ result.err.kind \in {"nil", "invalid_labels", "invalid_entry"}
  THEN "success"
  ELSE IF result.resp = "nil" /\ result.err.kind = "no_org_id" THEN "auth_required"
  ELSE IF result.resp = "nil" /\ result.err.kind = "rate_limited" THEN "rate_limited"
  ELSE IF result.resp = "nil" /\ result.err.kind \in {"rpc", "timeout", "pool"}
  THEN "replication_failed"
  ELSE IF result.resp = "nil" /\ result.err.kind = "context_canceled" THEN "cancelled"
  ELSE IF result.resp = "nil" /\ result.err.kind = "ring" THEN "lookup_failed"
  ELSE "none"

FiveOutcomes ==
  {"success", "rate_limited", "replication_failed", "cancelled", "auth_required"}

\* C7 as stated: what Push returns is one of success, rate-limited,
\* replication-failed, cancelled and auth-required.
C7_FiveOutcomes == pushPC = "returned" => Outcome \in FiveOutcomes

\* C7 as amended: Push returns once, and what it returns is one of success,
\* rate-limited, replication-failed, cancelled, auth-required and the error of
\* the replication-set lookup.
C7_SingleDecision ==
  [][/\ pushPC' = "returned" => Outcome' \in FiveOutcomes \cup {"lookup_failed"}
     /\ pushPC = "returned" =>
          pushPC' = "returned" /\ result' = result /\ returnedAt' = returnedAt]_vars

\* C7, its case: Push has returned the error of a failed ring lookup for a
\* request with two surviving streams
C7_Witness ==
  /\ pushPC = "returned"
  /\ returnedAt = 303
  /\ Outcome = "lookup_failed"
  /\ Len(keys) = 2

\* C8: while Push waits with the caller's context cancelled and neither
\* signal produced, the one step Push can take is to return the context's
\* cancellation error, and it can take it whatever the replica RPCs are doing.
C8_CancelReturnsWithoutWaiting ==
  (pushPC = "select" /\ ctxCancelled /\ done = <<>> /\ err = <<>>)
  => /\ ENABLED (SelectCtxDone
                   /\ result' = [resp |-> "nil", err |-> [kind |-> "context_canceled"]])
     /\ ~ENABLED SelectErr
     /\ ~ENABLED SelectDone

\* C8, its case: Push returned the cancellation error while all three replica
\* RPCs were still in flight
C8_Witness ==
  /\ returnedAt = 340
  /\ result.err.kind = "context_canceled"
  /\ Cardinality(Launched) = 3
  /\ \A a \in Launched : taskPC[a] = "rpc"

\* the steps of the goroutine of address a after its RPC returned
ApplyResult(a) ==
  \/ DecSuccessBucket(a)
  \/ DecPending(a)
  \/ SendDone(a)
  \/ DecFailureBucket(a)
  \/ SwapFailed(a)
  \/ SendErr(a)

\* C9: once a request has fanned out, every address of every replication set
\* has a goroutine, and whether or not the caller has cancelled or Push has
\* returned, a goroutine's RPC can still complete, with success as with an
\* error, and a goroutine whose RPC completed can still take its next step
\* on the trackers.
C9_CancelNeverCurtailsReplication ==
  FannedOut =>
    /\ \A i \in 1..Len(streams) : replicationSets[i].Instances \subseteq Launched
    /\ \A a \in Launched :
         /\ taskPC[a] = "rpc" =>
              /\ ENABLED ExecutePushRequest(a, NoErr)
              /\ ENABLED ExecutePushRequest(a, RpcErr(a))
         /\ taskPC[a] \notin {"rpc", "finished"} => ENABLED ApplyResult(a)

\* C9, its case: the caller cancelled, Push returned the cancellation error
\* with no RPC completed, and all goroutines have since run to their end and
\* brought a stream to quorum
C9_Witness ==
  /\ ctxCancelled
  /\ returnedAt = 340
  /\ Cardinality(Launched) >= 2
  /\ runningAtReturn = Launched
  /\ AllFinished
  /\ \E i \in 1..Len(streams) : QuorumReached(i)

\* the entries of a stream as ValidateEntry sees them, and those it accepts
AsValidated(vContext, s) ==
  [k \in 1..Len(s.entries) |->
     IF vContext.maxLineSizeTruncate
     THEN TruncatedEntry(vContext, s.entries[k]) ELSE s.entries[k]]

Accepted(vContext, s) ==
  {k \in 1..Len(s.entries) : ValidateEntry(vContext, AsValidated(vContext, s)[k]) = NoErr}

\* the streams of request body r that get past the label checks
Survives(vContext, s) ==
  /\ s.entries # <<>>
  /\ ParseLabels(s.labels).err = NoErr
  /\ ValidateLabels(vContext, ParseLabels(s.labels).ls) = NoErr

ValidatedCount(vContext, r) ==
  SumSeq([j \in 1..Len(r) |->
            IF Survives(vContext, r[j]) THEN Cardinality(Accepted(vContext, r[j])) ELSE 0])

ValidatedSize(vContext, r) ==
  SumSeq([j \in 1..Len(r) |->
            IF Survives(vContext, r[j])
            THEN SumSeq([k \in 1..Len(r[j].entries) |->
                           IF k \in Accepted(vContext, r[j])
                           THEN Len(AsValidated(vContext, r[j])[k].line) ELSE 0])
            ELSE 0])

\* C10: a request the limiter rejects gets the 429 error naming the tenant,
\* the limit, the number of validated entries and their bytes, and no
\* goroutine is launched and no RPC issued for any of its streams.
C10_RateLimitedWholeRequest ==
  returnedAt = 293 =>
    /\ result = [resp |-> "nil",
                 err |-> [kind |-> "rate_limited", code |-> 429, userID |-> userID,
                          limit |-> Overrides[userID].ingestionRate,
                          count |-> ValidatedCount(getValidationContextForTime(now, userID), req),
                          size |-> ValidatedSize(getValidationContextForTime(now, userID), req)]]
    /\ Launched = {}
    /\ \A a \in Ingesters : ingesterAppends[a] = 0 /\ taskErr[a] = NoErr
    /\ streams = <<>>

\* C10, its case: a request of two streams, with more bytes than entries, was
\* rejected by the limiter
C10_Witness ==
  /\ returnedAt = 293
  /\ Len(req) = 2
  /\ result.err.kind = "rate_limited"
  /\ result.err.size > result.err.count

\* C5: the pending counter has reached zero if and only if every surviving
\* stream has received its |replicas| - max_errors successful RPCs: never
\* before, and always by the time every goroutine has ended.
C5_PendingZeroIffQuorum ==
  FannedOut =>
    /\ pending <= 0 => \A i \in 1..Len(streams) : Acks(i) >= MinSuccess(i)
    /\ (AllFinished /\ \A i \in 1..Len(streams) : Acks(i) >= MinSuccess(i))
         => pending <= 0

\* C6: no stream is counted both as having reached quorum and as exhausted.
C6_QuorumOrExhausted ==
  \A i \in 1..Len(streams) : ~(QuorumReached(i) /\ Exhausted(i))

(* --------------------- claims on a series of calls -------------------- *)
\* the step in which Push is called
IsCall == pushPC = "start" /\ pushPC' # "start"

\* the limiter as it would be had no other tenant than u ever called
Isolated(u) == [v \in Tenants |-> IF v = u THEN buckets[u] ELSE NoBuckets[v]]

CacheAt(u, r, t, j) == Prepared(u, SubSeq(r, 1, j - 1), t).cache

\* parseStreamLabels answers stream j of the request from the cache
IsCacheHit(u, r, t, j) ==
  /\ Len(r[j].entries) > 0
  /\ CacheGet(CacheAt(u, r, t, j), r[j].labels).ok

\* C12: whenever parseStreamLabels answers a stream of a tenant's request
\* from the cache, the raw label string is label syntax and its label set
\* passes ValidateLabels under the limits of that tenant at that time.
C12_CacheHitsAreValid ==
  [][(IsCall /\ userID' # NoTenant) =>
       \A j \in 1..Len(req') :
         IsCacheHit(userID', req', now, j) =>
           /\ ParseLabels(req'[j].labels).err = NoErr
           /\ ValidateLabels(getValidationContextForTime(now, userID'),
                             ParseLabels(req'[j].labels).ls) = NoErr]_vars

\* C13: for every raw label string the cache holds, what parseStreamLabels
\* returns for it, to any tenant, is without error the string a fresh
\* ParseLabels and String of that raw input produce.
C13_CacheHitEqualsFreshParse ==
  \A i \in 1..Len(labelCache) : \A u \in Tenants :
    LET fresh == ParseLabels(labelCache[i].key)
        got == parseStreamLabels(getValidationContextForTime(now, u),
                                 labelCache[i].key, labelCache)
    IN /\ fresh.err = NoErr
       /\ got.err = NoErr
       /\ got.labels = LabelsString(fresh.ls)

\* C13, its case: the cache holds two raw strings, one of them not in
\* canonical form, and the second call, by tenant A, was answered from it
\* (A's own limits would have turned {aa="1"} down)
C13_Witness ==
  /\ calls = 2
  /\ userID = "A"
  /\ Len(labelCache) = 2
  /\ \E i \in 1..Len(labelCache) :
       labelCache[i].key = LabelsBA /\ labelCache[i].val = LabelsAB
  /\ Len(req) = 1
  /\ req[1].labels = LabelsLong
  /\ Len(keys) = 1

\* C14: for a tenant whose truncation policy is enabled no entry is ever
\* rejected as line_too_long (its discarded counters stay at zero and the
\* error Push retains is never that one), and the stream that went through
\* ValidateEntry last has no line longer than max_line_size.
C14_TruncationBeforeValidation ==
  \A u \in Tenants :
    Overrides[u].maxLineSizeTruncate =>
      /\ discardedSamples["line_too_long"][u] = 0
      /\ discardedBytes["line_too_long"][u] = 0
      /\ userID = u =>
           /\ ~(validationErr.kind = "invalid_entry"
                  /\ validationErr.reason = "line_too_long")
           /\ Overrides[u].maxLineSize # 0 =>
                \A k \in 1..Len(stream.entries) :
                  Len(stream.entries[k].line) <= Overrides[u].maxLineSize

\* C14, its case: tenant A, who truncates, sent a line longer than its
\* max_line_size; the line was cut, counted as mutated and replicated
C14_Witness ==
  /\ userID = "A"
  /\ \E j \in 1..Len(req) : \E k \in 1..Len(req[j].entries) :
       Len(req[j].entries[k].line) > Overrides["A"].maxLineSize
  /\ mutatedSamples["line_too_long"]["A"] = 1
  /\ validationErr = NoErr
  /\ returnedAt = 338

\* request body r cut after entry k of its stream j
Cut(r, j, k) == SubSeq(r, 1, j - 1) \o <<[r[j] EXCEPT !.entries = SubSeq(@, 1, k)]>>

\* the places of a request body in input order: entry k of stream j
Cuts(r) == UNION {{<<j, k>> : k \in 1..Len(r[j].entries)} : j \in 1..Len(r)}
Before(c, d) == c[1] < d[1] \/ (c[1] = d[1] /\ c[2] < d[2])

\* the validation error Push holds when its loops have come as far as place c
ErrAt(u, r, t, c) == Prepared(u, Cut(r, c[1], c[2]), t).validationErr

\* the first validation error the loops of Push meet on request body r:
\* the one held at the first place at which one is held
FirstValidationErr(u, r, t) ==
  IF \E c \in Cuts(r) : ErrAt(u, r, t, c) # NoErr
  THEN ErrAt(u, r, t,
             CHOOSE c \in Cuts(r) :
               /\ ErrAt(u, r, t, c) # NoErr
               /\ \A d \in Cuts(r) : Before(d, c) => ErrAt(u, r, t, d) = NoErr)
  ELSE NoErr

\* C15: the validation error Push retains for a request, and returns with its
\* response, is the first one met in input order.
C15_FirstValidationErrorKept ==
  [][(IsCall /\ userID' # NoTenant /\ Len(req') > 0) =>
       /\ validationErr' = FirstValidationErr(userID', req', now)
       /\ returnedAt' = 285 => result'.err = FirstValidationErr(userID', req', now)]_vars

\* stream j of request body r is turned down for its labels (lines 254-264)
StreamInvalid(u, r, t, j) ==
  /\ Len(r[j].entries) > 0
  /\ parseStreamLabels(getValidationContextForTime(t, u), r[j].labels,
                       CacheAt(u, r, t, j)).err # NoErr

\* the entries of stream s that ValidateEntry lets through (lines 267-276),
\* as they came in the request
ValidEntries(vContext, s) ==
  [k \in 1..Cardinality(Accepted(vContext, s)) |->
     s.entries[SortedSeq(Accepted(vContext, s))[k]]]

\* request body r without the streams turned down for their labels and
\* without the entries ValidateEntry turns down, from stream j on
RECURSIVE WithoutInvalid(_, _, _, _)
WithoutInvalid(u, r, t, j) ==
  IF j > Len(r) THEN <<>>
  ELSE (IF StreamInvalid(u, r, t, j) THEN <<>>
        ELSE <<[r[j] EXCEPT
                  !.entries = ValidEntries(getValidationContextForTime(t, u), r[j])]>>)
       \o WithoutInvalid(u, r, t, j + 1)

\* C16: when a stream of the request survives preparation, the limiter is
\* asked, and the streams are keyed and routed, exactly as for the request
\* without its invalid streams and entries; and on the done signal Push
\* returns the empty response with the validation error it retained.
C16_InvalidItemsAsIfAbsent ==
  [][/\ (IsCall /\ userID' # NoTenant /\ Len(req') > 0
          /\ Len(Prepared(userID', req', now).streams) > 0) =>
          LET asif == Prepared(userID', WithoutInvalid(userID', req', now, 1), now)
          IN /\ returnedAt' # 285
             /\ returnedAt' = 293 <=> ~AllowN(buckets, now, userID', asif.size).ok
             /\ pushPC' = "select" =>
                  /\ keys' = asif.keys
                  /\ Len(streams') = Len(asif.streams)
                  /\ pending' = Len(asif.streams)
     /\ (pushPC = "select" /\ returnedAt' = 338) =>
          result' = [resp |-> "empty", err |-> validationErr]]_vars

\* the entries of the streams of request body r turned down for their labels
RECURSIVE InvalidLabelEntries(_, _, _, _)
InvalidLabelEntries(u, r, t, j) ==
  IF j > Len(r) THEN 0
  ELSE (IF StreamInvalid(u, r, t, j) THEN Len(r[j].entries) ELSE 0)
       + InvalidLabelEntries(u, r, t, j + 1)

\* C17: when every stream of a tenant's request is without entries or turned
\* down for its labels, Push returns the empty response with the validation
\* error it retained (an error exactly when a stream was turned down), leaves
\* the limiter as it was, launches no goroutine and issues no RPC, and the
\* tenant's invalid_labels discarded-samples counter has advanced by the
\* number of entries of the streams turned down.
C17_NoneSurvive ==
  [][(IsCall /\ userID' # NoTenant /\ Len(req') > 0
        /\ \A j \in 1..Len(req') :
             Len(req'[j].entries) = 0 \/ StreamInvalid(userID', req', now, j)) =>
       /\ returnedAt' = 285
       /\ result' = [resp |-> "empty", err |-> validationErr']
       /\ validationErr' # NoErr <=>
            \E j \in 1..Len(req') : StreamInvalid(userID', req', now, j)
       /\ validationErr' # NoErr => validationErr'.kind = "invalid_labels"
       /\ buckets' = buckets
       /\ \A a \in Ingesters : taskPC'[a] = "idle"
       /\ UNCHANGED <<rpcVars, streams, keys, pending>>
       /\ discardedSamples' =
            CounterAdd(discardedSamples, "invalid_labels", userID',
                       InvalidLabelEntries(userID', req', now, 1))]_vars

\* C17, its case: both streams of a request carried not_a_labelset; Push
\* returned the empty response with the labels error, the counter stands at
\* the two entries and the tenant has no bucket yet
C17_Witness ==
  /\ returnedAt = 285
  /\ userID = "B"
  /\ Len(req) = 2
  /\ \A j \in 1..Len(req) : req[j].labels = NotALabelset
  /\ result = [resp |-> "empty", err |-> [kind |-> "invalid_labels", reason |-> "syntax"]]
  /\ discardedSamples["invalid_labels"]["B"] = 2
  /\ ~buckets["B"].created

\* C18: a tenant's request without streams gets the empty response and no
\* error, and the call changes nothing else: not the label cache, the
\* limiter or a counter, and it looks nothing up and launches no goroutine.
C18_EmptyRequest ==
  [][(IsCall /\ userID' # NoTenant /\ req' = <<>>) =>
       /\ pushPC' = "returned"
       /\ returnedAt' = 231
       /\ result' = [resp |-> "empty", err |-> NoErr]
       /\ UNCHANGED <<processVars, rpcVars, trackerVars, taskVars>>
       /\ UNCHANGED <<keys, replicationSets, streamsByIngester, validationErr>>]_vars

\* C18, its case: the second call of a series, by a tenant whose earlier
\* request filled the cache and drew on its bucket, carried no stream
C18_Witness ==
  /\ calls = 2
  /\ returnedAt = 231
  /\ userID \in Tenants
  /\ req = <<>>
  /\ labelCache # <<>>
  /\ buckets[userID].created
  /\ buckets[userID].tokens < Burst(now, userID)
  /\ \E a \in Ingesters : ingesterAppends[a] = 1

\* C19: a request without tenant id gets the auth-required error and no
\* response, whatever it carries, and the call changes nothing else: not the
\* label cache, the limiter or a counter, and it launches no goroutine.
C19_AuthRequired ==
  [][(IsCall /\ userID' = NoTenant) =>
       /\ pushPC' = "returned"
       /\ returnedAt' = 226
       /\ result' = [resp |-> "nil", err |-> [kind |-> "no_org_id"]]
       /\ UNCHANGED <<processVars, rpcVars, trackerVars, taskVars>>
       /\ UNCHANGED <<keys, replicationSets, streamsByIngester, validationErr>>]_vars

\* C19, its case: after a tenant's request filled the cache, a request of two
\* streams came without tenant id and was turned away
C19_Witness ==
  /\ calls = 2
  /\ returnedAt = 226
  /\ userID = NoTenant
  /\ Len(req) = 2
  /\ result.err.kind = "no_org_id"
  /\ labelCache # <<>>
  /\ \A a \in Ingesters : taskPC[a] = "idle"

\* the canonical text of the label set a raw label string spells
Canonical(raw) == LabelsString(ParseLabels(raw).ls)

\* the raw label strings of the streams of request body r that Push keeps
\* (those with entries, not turned down for their labels), from stream j on
RECURSIVE KeptLabels(_, _, _, _)
KeptLabels(u, r, t, j) ==
  IF j > Len(r) THEN <<>>
  ELSE (IF Len(r[j].entries) > 0 /\ ~StreamInvalid(u, r, t, j)
        THEN <<r[j].labels>> ELSE <<>>)
       \o KeptLabels(u, r, t, j + 1)

\* C20: with the ring's membership unchanged, the routing key of every
\* stream Push keeps is TokenFor of the tenant and the canonical text of its
\* label set, whatever the spelling, and its replication set is the ring's
\* answer for that key: streams of one tenant with one canonical label set
\* get the same key and the same replication set, in this and in any call.
C20_DeterministicRouting ==
  [][(IsCall /\ pushPC' = "select") =>
       LET kept == KeptLabels(userID', req', now, 1)
       IN /\ Len(keys') = Len(kept)
          /\ Len(replicationSets') = Len(kept)
          /\ \A i \in 1..Len(kept) :
               /\ keys'[i] = TokenFor(userID', Canonical(kept[i]))
               /\ replicationSets'[i] = StableRing[keys'[i]]
          /\ \A i, j \in 1..Len(kept) :
               Canonical(kept[i]) = Canonical(kept[j]) =>
                 /\ keys'[i] = keys'[j]
                 /\ replicationSets'[i] = replicationSets'[j]]_vars

\* C20, its case: the second request of a series carried the label set
\* {a="1", b="1"} in two spellings; both streams got one key and one
\* replication set, and the request was replicated
C20_Witness ==
  /\ calls = 2
  /\ returnedAt = 338
  /\ Len(req) = 2
  /\ req[1].labels = LabelsBA
  /\ req[2].labels = LabelsAB
  /\ Len(keys) = 2
  /\ keys[1] = keys[2]
  /\ keys[1] # TokenFor(userID, LabelsBA)
  /\ replicationSets[1] = replicationSets[2]

(* ------------------------ claims on the fan-out ----------------------- *)
\* the addresses of the replication sets of the request's streams
Destinations == UNION {replicationSets[i].Instances : i \in 1..Len(replicationSets)}

\* the goroutine of address a has made its call of executePushRequest, and
\* the call got as far as the RPC (the pool had a client)
Attempted(a) == taskPC[a] \notin {"idle", "rpc"}
RpcMade(a) == Attempted(a) /\ taskErr[a].kind # "pool"

\* C21: a request that fans out has one goroutine per address of the union
\* of its streams' replication sets and none for any other address, however
\* many streams route to an address; each goroutine calls executePushRequest
\* once, which makes the RPC once (not at all when the pool has no client),
\* and an RPC that failed is not made again.
C21_OneAttemptPerAddress ==
  /\ FannedOut => Launched = Destinations
  /\ ~FannedOut => Launched = {}
  /\ \A a \in Ingesters :
       /\ ingesterAppends[a] = (IF RpcMade(a) THEN 1 ELSE 0)
       /\ ingesterAppendFailures[a] = (IF RpcMade(a) /\ taskErr[a] # NoErr THEN 1 ELSE 0)
       /\ Attempted(a) => taskIdx[a] \in 1..Len(streamsByIngester[a])

\* C21, its case: two streams both routed to address 1 and to two more
\* addresses; every goroutine has ended, one RPC failed, and each address
\* saw one RPC
C21_Witness ==
  /\ Len(streams) = 2
  /\ Len(streamsByIngester[1]) = 2
  /\ Cardinality(Launched) = 3
  /\ AllFinished
  /\ \E a \in Launched : taskErr[a] = RpcErr(a)
  /\ \A a \in Launched : ingesterAppends[a] = 1

\* the validation context of the call the state holds
CallContext == getValidationContextForTime(now, userID)

\* the request's streams that survive preparation, as indexes into req in
\* input order: tracker i stands for stream SurvivingIndexes[i] of the request
SurvivingIndexes == SortedSeq({j \in 1..Len(req) : Survives(CallContext, req[j])})

\* stream s as it is to be sent: its own canonical labels and those of its
\* own entries, truncated where the tenant truncates, that ValidateEntry accepts
OwnStream(vContext, s) ==
  [labels |-> Canonical(s.labels),
   entries |-> [k \in 1..Cardinality(Accepted(vContext, s)) |->
                  AsValidated(vContext, s)[SortedSeq(Accepted(vContext, s))[k]]]]

\* the surviving streams whose replication set contains address a, in input
\* order
RoutedTo(a) == SortedSeq({i \in 1..Len(replicationSets) : a \in replicationSets[i].Instances})
OwnStreamsFor(a) ==
  [k \in 1..Len(RoutedTo(a)) |-> OwnStream(CallContext, req[SurvivingIndexes[RoutedTo(a)[k]]])]

\* two sequences hold the same elements the same number of times
Occurrences(x, q) == Cardinality({k \in 1..Len(q) : q[k] = x})
SameElements(p, q) ==
  /\ Len(p) = Len(q)
  /\ \A x \in Range(p) \cup Range(q) : Occurrences(x, p) = Occurrences(x, q)

\* C22: the payload of the RPC to an address holds exactly the surviving
\* streams of the request whose replication set contains the address, each
\* with its own canonical labels and its own surviving entries.
C22_PayloadIsOwnStreams ==
  \A a \in Ingesters : RpcMade(a) => SameElements(payload[a], OwnStreamsFor(a))

\* p can be had from q by leaving elements out: the elements of p appear in
\* q in the same relative order
RECURSIVE IsSubsequence(_, _)
IsSubsequence(p, q) ==
  IF p = <<>> THEN TRUE
  ELSE IF q = <<>> THEN FALSE
  ELSE IF Head(p) = Head(q) THEN IsSubsequence(Tail(p), Tail(q))
  ELSE IsSubsequence(p, Tail(q))

\* the request as its streams are to be sent, those that do not survive
\* left out
OwnStreams == [i \in 1..Len(SurvivingIndexes) |-> OwnStream(CallContext, req[SurvivingIndexes[i]])]

\* C23: the streams of the payload of the RPC to an address are streams of
\* the request in the relative order they have in the request.
C23_PayloadInInputOrder ==
  \A a \in Ingesters :
    RpcMade(a) => /\ Len(payload[a]) = Len(RoutedTo(a))
                  /\ IsSubsequence(payload[a], OwnStreams)

\* C24: the one error Push returns as a replication failure is the error of
\* the call of executePushRequest of the goroutine that flipped the failed
\* flag from false to true, which it did after its failure had brought the
\* failureBucket of one of its streams to zero or below; a goroutine that
\* fails later finds the flag set and delivers nothing: the flag is never
\* reset, and the err channel is sent to once at most.
C24_DecidingError ==
  [][/\ \A a \in Ingesters :
          (taskPC'[a] = "send_err" /\ taskPC[a] # "send_err") =>
            /\ taskPC[a] = "swap"
            /\ ~failed
            /\ failed'
            /\ taskErr[a] # NoErr
            /\ streams[Current(a)].failureBucket <= 0
     /\ failed => failed'
     /\ Len(err') > Len(err) =>
          /\ err = <<>>
          /\ \E a \in Ingesters : taskPC[a] = "send_err" /\ err' = <<taskErr[a]>>
     /\ ErrSent' + ErrSending' <= 1
     /\ (pushPC = "select" /\ returnedAt' = 336) =>
          /\ err # <<>>
          /\ result' = [resp |-> "nil", err |-> Head(err)]
          /\ \E a \in Launched : Failed(a) /\ taskErr[a] = Head(err)]_vars

\* C24, its case: Push returned the error of one failed RPC after a second
\* RPC, to another address, had failed too and brought a stream's
\* failureBucket to zero or below; every goroutine has ended
C24_Witness ==
  /\ returnedAt = 336
  /\ AllFinished
  /\ err = <<>>
  /\ \E a, b \in Launched :
       /\ a # b
       /\ result.err = taskErr[a]
       /\ Failed(b)
       /\ \E k \in 1..Len(streamsByIngester[b]) :
            streams[streamsByIngester[b][k]].failureBucket <= 0

\* C25: under fair scheduling, every replica RPC returning in the end, a
\* call of Push that has launched its goroutines returns, whether or not the
\* caller ever cancels.
C25_PushTerminates == (pushPC = "select") ~> (pushPC = "returned")

\* C25, its case: a request of two streams fanned out to three addresses and
\* Push returned on a signal of its goroutines, the caller never having
\* cancelled
C25_Witness ==
  /\ pushPC = "returned"
  /\ returnedAt \in {336, 338}
  /\ ~ctxCancelled
  /\ Len(streams) = 2
  /\ Cardinality(Launched) = 3

(* --------------------- claims on what is admitted --------------------- *)
\* stream j of request body r gets past the label step of a call by tenant u
\* at time t: it has entries and parseStreamLabels returns no error for it
PassesLabels(u, r, t, j) == Len(r[j].entries) > 0 /\ ~StreamInvalid(u, r, t, j)

\* the entries ValidateEntry accepts in the streams that get past the label
\* step: their number, and the bytes of their lines as truncateLines left them
AdmittedCount(u, r, t) ==
  SumSeq([j \in 1..Len(r) |->
            IF PassesLabels(u, r, t, j)
            THEN Cardinality(Accepted(getValidationContextForTime(t, u), r[j]))
            ELSE 0])

AdmittedSize(u, r, t) ==
  SumSeq([j \in 1..Len(r) |->
            IF PassesLabels(u, r, t, j)
            THEN SumSeq([k \in 1..Len(r[j].entries) |->
                   IF k \in Accepted(getValidationContextForTime(t, u), r[j])
                   THEN Len(AsValidated(getValidationContextForTime(t, u), r[j])[k].line)
                   ELSE 0])
            ELSE 0])

\* C29: the limiter is asked for the bytes, after truncation, of exactly
\* the entries ValidateEntry accepted in the streams that got past the label
\* step: the request is rejected exactly when the tenant's bucket holds fewer
\* tokens than that, an admitted request draws exactly that many, and a
\* rejected one reports that total and the number of those entries, in the
\* error and on the rate_limited counters.
C29_AdmittedBytes ==
  [][(IsCall /\ userID' # NoTenant /\ returnedAt' \notin {231, 285}) =>
       LET size == AdmittedSize(userID', req', now)
           count == AdmittedCount(userID', req', now)
           b == Refilled(buckets, now, userID')
       IN /\ returnedAt' = 293 <=> size > b.tokens
          /\ returnedAt' # 293 => buckets'[userID'].tokens = b.tokens - size
          /\ returnedAt' = 293 =>
               /\ buckets'[userID'].tokens = b.tokens
               /\ result'.err.size = size
               /\ result'.err.count = count
               /\ discardedSamples'["rate_limited"][userID'] =
                    discardedSamples["rate_limited"][userID'] + count
               /\ discardedBytes'["rate_limited"][userID'] =
                    discardedBytes["rate_limited"][userID'] + size]_vars

\* C29, its case: tenant B's first request carried a stream with a line too
\* long and a line that passes, and a stream dropped for its labels; it was
\* admitted and replicated, and the bucket gave the one byte of the one
\* accepted entry
C29_Witness ==
  /\ calls = 1
  /\ userID = "B"
  /\ returnedAt = 338
  /\ Len(req) = 2
  /\ req[1].labels = LabelsBA
  /\ req[2].labels = NotALabelset
  /\ discardedSamples["line_too_long"]["B"] = 1
  /\ discardedSamples["invalid_labels"]["B"] = 1
  /\ buckets["B"].tokens = Burst(now, "B") - 1

(* ------------------------ claims on truncateLines --------------------- *)
\* the places of the entries of stream s whose line is longer than the
\* tenant's max_line_size, and the bytes beyond it
TooLong(vContext, s) ==
  {k \in 1..Len(s.entries) :
     vContext.maxLineSize # 0 /\ Len(s.entries[k].line) > vContext.maxLineSize}

BytesRemoved(vContext, s) ==
  SumSeq([k \in 1..Len(s.entries) |->
            IF k \in TooLong(vContext, s)
            THEN Len(s.entries[k].line) - vContext.maxLineSize ELSE 0])

\* C30: for a tenant with truncation enabled, truncateLines leaves a stream
\* with the same entries, every line longer than max_line_size cut to its
\* first max_line_size bytes and every other line as it was, and advances the
\* tenant's mutated-samples counter by the number of entries cut and its
\* mutated-bytes counter by the sum, over all the entries cut, of the bytes
\* removed.
C30_TruncateLines ==
  [][(pushPC = "start" /\ returnedAt' \in {346, 361}
        /\ Overrides[userID].maxLineSizeTruncate) =>
       LET vContext == getValidationContextForTime(now, userID)
       IN /\ stream'.labels = stream.labels
          /\ Len(stream'.entries) = Len(stream.entries)
          /\ \A k \in 1..Len(stream.entries) :
               /\ stream'.entries[k].ts = stream.entries[k].ts
               /\ stream'.entries[k].line =
                    (IF k \in TooLong(vContext, stream)
                     THEN SubSeq(stream.entries[k].line, 1, vContext.maxLineSize)
                     ELSE stream.entries[k].line)
          /\ mutatedSamples' = CounterAdd(mutatedSamples, "line_too_long", userID,
                                          Cardinality(TooLong(vContext, stream)))
          /\ mutatedBytes' = CounterAdd(mutatedBytes, "line_too_long", userID,
                                        BytesRemoved(vContext, stream))]_vars

(* ------------------- claims on the trackers' counters ----------------- *)
\* the goroutine of address a has made its decrement of the bucket of tracker
\* i: the tracker is in its list, at or before the place the goroutine is at
HasDecremented(a, i) ==
  /\ Attempted(a)
  /\ \E k \in 1..Len(streamsByIngester[a]) :
       /\ streamsByIngester[a][k] = i
       /\ \/ k < taskIdx[a]
          \/ taskPC[a] = "finished"
          \/ k = taskIdx[a] /\ taskPC[a] \in {"pending", "send_done", "swap", "send_err"}

SuccessDecs(i) == Cardinality({a \in Ingesters : HasDecremented(a, i) /\ taskErr[a] = NoErr})
FailureDecs(i) == Cardinality({a \in Ingesters : HasDecremented(a, i) /\ taskErr[a] # NoErr})

\* C31: the call that fans out finds no goroutine running and leaves, with
\* the goroutines at the start of their RPC, every tracker's successBucket at
\* |replicas| - max_errors, its failureBucket at max_errors and pending at the
\* number of streams the preparation kept; no goroutine runs for a request
\* that has not fanned out; and from then on every bucket holds the value
\* stored for it less the decrements made on it, the counters changing by a
\* goroutine's decrement of one only.
C31_InitialisedBeforeFanOut ==
  [][/\ (IsCall /\ pushPC' = "select") =>
          /\ \A a \in Ingesters : taskPC[a] = "idle"
          /\ \A a \in Ingesters : taskPC'[a] \in {"idle", "rpc"}
          /\ pending' = Len(KeptLabels(userID', req', now, 1))
          /\ Len(streams') = pending'
          /\ \A i \in 1..Len(streams') :
               /\ streams'[i].successBucket =
                    Cardinality(replicationSets'[i].Instances) - replicationSets'[i].MaxErrors
               /\ streams'[i].failureBucket = replicationSets'[i].MaxErrors
     /\ ~FannedOut' => Launched' = {}
     /\ FannedOut' =>
          \A i \in 1..Len(streams') :
            /\ streams'[i].successBucket = MinSuccess(i)' - SuccessDecs(i)'
            /\ streams'[i].failureBucket = MaxErrors(i)' - FailureDecs(i)'
     /\ (FannedOut /\ pushPC' # "start") =>
          /\ pending' \in {pending, pending - 1}
          /\ pending' # pending => \E a \in Ingesters : taskPC[a] = "pending"
          /\ Len(streams') = Len(streams)]_vars

\* C31, its case: a request of two streams fanned out to three addresses;
\* one goroutine has made its decrements while another has not started its
\* own, and the buckets it is about to read hold what was stored for them
\* less the decrements made
C31_Witness ==
  /\ FannedOut
  /\ Len(streams) = 2
  /\ Cardinality(Launched) = 3
  /\ \E a, b \in Launched :
       /\ taskPC[a] = "finished"
       /\ Len(streamsByIngester[a]) = 2
       /\ taskPC[b] = "rpc"
       /\ \E i \in 1..Len(streams) :
            /\ b \in replicationSets[i].Instances
            /\ streams[i].successBucket + streams[i].failureBucket
                 < Cardinality(replicationSets[i].Instances)

(* ------------------- claims on streams without entries ---------------- *)
\* request body r without its streams that have no entries
WithoutEmpty(r) == SelectSeq(r, LAMBDA s : Len(s.entries) > 0)

\* the streams of request body r that arrived without entries
EmptyStreams(r) == {r[j] : j \in {k \in 1..Len(r) : Len(r[k].entries) = 0}}

\* C32: a call leaves the label cache, the discarded and mutated counters,
\* the validation error, the bytes and entries put to the limiter, the
\* limiter's answer, the keys and the trackers as it would for the request
\* without its streams that arrived with zero entries, and no RPC carries
\* such a stream.
C32_EmptyStreamDroppedSilently ==
  [][/\ (IsCall /\ userID' # NoTenant /\ Len(req') > 0) =>
          LET with == Prepared(userID', req', now)
              without == Prepared(userID', WithoutEmpty(req'), now)
          IN /\ with.cache = without.cache
             /\ with.dSamples = without.dSamples
             /\ with.dBytes = without.dBytes
             /\ with.mSamples = without.mSamples
             /\ with.mBytes = without.mBytes
             /\ with.validationErr = without.validationErr
             /\ with.size = without.size
             /\ with.count = without.count
             /\ with.keys = without.keys
             /\ Len(with.streams) = Len(without.streams)
             /\ labelCache' = without.cache
             /\ mutatedSamples' = without.mSamples
             /\ mutatedBytes' = without.mBytes
             /\ validationErr' = without.validationErr
             /\ Len(without.streams) = 0 =>
                  /\ result' = [resp |-> "empty", err |-> without.validationErr]
                  /\ discardedSamples' = without.dSamples
                  /\ discardedBytes' = without.dBytes
                  /\ buckets' = buckets
             /\ Len(without.streams) > 0 =>
                  /\ returnedAt' = 293 <=>
                       ~AllowN(buckets, now, userID', without.size).ok
                  /\ buckets' = AllowN(buckets, now, userID', without.size).buckets
                  /\ pushPC' = "select" =>
                       keys' = without.keys /\ pending' = Len(without.streams)
     /\ \A a \in Ingesters :
          RpcMade(a)' =>
            \A k \in 1..Len(payload'[a]) : payload'[a][k] \notin EmptyStreams(req')]_vars

(* ----------------------- claims on the label cache -------------------- *)
\* the raw label string fails parsing, or its label set fails ValidateLabels
\* under the limits of the validation context
FailsLabels(vContext, raw) ==
  \/ ParseLabels(raw).err # NoErr
  \/ ValidateLabels(vContext, ParseLabels(raw).ls) # NoErr

\* the raw label strings the cache holds
CachedKeys(cache) == {cache[i].key : i \in 1..Len(cache)}

\* C33: the label cache changes in a call of Push only; an entry a call
\* inserts has for key the raw label string of a stream of the request that
\* parses and passes ValidateLabels under the caller's limits, and for value
\* its canonical text; and a stream whose raw label string fails parsing or
\* validation under the caller's limits is rejected, at every call that
\* carries it, and its string is not in the cache after the call.
C33_OnlyValidLabelsCached ==
  [][/\ labelCache' # labelCache => IsCall
     /\ (IsCall /\ userID' # NoTenant) =>
          LET vContext == getValidationContextForTime(now, userID')
          IN /\ \A i \in 1..Len(labelCache') :
                  labelCache'[i].key \notin CachedKeys(labelCache) =>
                    /\ \E j \in 1..Len(req') :
                         /\ Len(req'[j].entries) > 0
                         /\ req'[j].labels = labelCache'[i].key
                    /\ ~FailsLabels(vContext, labelCache'[i].key)
                    /\ labelCache'[i].val = Canonical(labelCache'[i].key)
             /\ \A j \in 1..Len(req') :
                  (Len(req'[j].entries) > 0 /\ FailsLabels(vContext, req'[j].labels)) =>
                    /\ StreamInvalid(userID', req', now, j)
                    /\ req'[j].labels \notin CachedKeys(labelCache')]_vars

(* --------------------- claims on a failed destination ----------------- *)
\* the goroutine of address a takes a step
Steps(a) == taskPC'[a] # taskPC[a] \/ taskIdx'[a] # taskIdx[a]

\* C34: whatever error executePushRequest returned (of the RPC, of an RPC
\* that ran into remote_timeout, of the pool), the goroutine goes through
\* the streams routed to its address in order, one decrement of failureBucket
\* for each, and changes no successBucket and not the pending counter; a
\* failureBucket changes by such a decrement only, and when the goroutine has
\* ended every stream routed to its address has had that one decrement:
\* with all goroutines ended a stream's failureBucket stands at its
\* max_errors less the failed addresses of its replication set, and its
\* successBucket at its required successes less the addresses that succeeded.
C34_FailuresHandledAlike ==
  [][/\ \A a \in Ingesters :
          (Steps(a) /\ pushPC # "start" /\ pushPC' # "start") =>
            /\ taskPC[a] = "rpc" =>
                 /\ streams' = streams
                 /\ pending' = pending
                 /\ taskPC'[a] = "loop"
                 /\ taskIdx'[a] = 1
            /\ (taskPC[a] # "rpc" /\ taskErr[a] # NoErr) =>
                 /\ pending' = pending
                 /\ done' = done
                 /\ \A i \in 1..Len(streams) :
                      /\ streams'[i].successBucket = streams[i].successBucket
                      /\ streams'[i].failureBucket =
                           (IF taskPC[a] = "loop" /\ Current(a) = i
                            THEN streams[i].failureBucket - 1
                            ELSE streams[i].failureBucket)
                 /\ taskPC[a] = "loop" => taskIdx'[a] \in {taskIdx[a], taskIdx[a] + 1}
                 /\ taskPC[a] # "loop" =>
                      /\ taskPC'[a] # "loop" => taskIdx'[a] = taskIdx[a]
                      /\ taskPC'[a] = "loop" => taskIdx'[a] = taskIdx[a] + 1
                 /\ taskPC'[a] = "finished" => taskIdx[a] = Len(streamsByIngester[a])
     /\ (pushPC # "start" /\ pushPC' # "start") =>
          \A i \in 1..Len(streams) :
            streams'[i].failureBucket # streams[i].failureBucket =>
              \E a \in replicationSets[i].Instances :
                taskPC[a] = "loop" /\ taskErr[a] # NoErr /\ Current(a) = i /\ Steps(a)
     /\ (FannedOut' /\ AllFinished') =>
          \A i \in 1..Len(streams') :
            /\ streams'[i].failureBucket = MaxErrors(i)' - Nacks(i)'
            /\ streams'[i].successBucket = MinSuccess(i)' - Acks(i)']_vars

\* C34, its case: the three addresses of a stream's replication set failed,
\* each in its own way: an RPC error, a timeout, and no client from the
\* pool; every goroutine has ended and the stream's failureBucket has gone
\* from 1 to -2, its successBucket being still at 2
C34_Witness ==
  /\ AllFinished
  /\ Cardinality(Launched) = 3
  /\ {taskErr[a].kind : a \in Launched} = {"rpc", "timeout", "pool"}
  /\ \E i \in 1..Len(streams) :
       /\ Cardinality(replicationSets[i].Instances) = 3
       /\ streams[i].failureBucket = -2
       /\ streams[i].successBucket = 2

(* ------------- claims on streams whose entries are all rejected ------- *)
\* the streams of request body r that get past the label step of a call by
\* tenant u at time t and keep an entry after ValidateEntry
WithEntries(u, r, t) ==
  {j \in 1..Len(r) :
     /\ PassesLabels(u, r, t, j)
     /\ Accepted(getValidationContextForTime(t, u), r[j]) # {}}

\* C35: every stream of the payload of an RPC has an entry; a request fans
\* out with as many keys, trackers and pending streams as it has streams
\* that keep an entry after validation, and when it has none Push returns
\* the empty response with the validation error and launches no goroutine.
C35_NoStreamWithoutEntriesSent ==
  [][/\ \A a \in Ingesters :
          RpcMade(a)' => \A k \in 1..Len(payload'[a]) : Len(payload'[a][k].entries) > 0
     /\ (IsCall /\ userID' # NoTenant /\ Len(req') > 0) =>
          LET n == Cardinality(WithEntries(userID', req', now))
          IN /\ n = 0 =>
                  /\ returnedAt' = 285
                  /\ result' = [resp |-> "empty", err |-> validationErr']
                  /\ \A a \in Ingesters : taskPC'[a] = "idle"
             /\ pushPC' = "select" =>
                  /\ Len(keys') = n
                  /\ Len(streams') = n
                  /\ pending' = n]_vars

(* --------------------- claims on the pending counter ------------------ *)
\* the goroutines that found a successBucket at zero or below and have yet
\* to make their decrement of pending (between lines 379 and 382)
AboutToDecPending == Cardinality({a \in Ingesters : taskPC[a] = "pending"})

\* C36: the pending counter of a request that has fanned out is never
\* negative and equals the number of its streams that have not reached
\* quorum, a stream whose quorum a goroutine has just found counting until
\* that goroutine has made the one decrement for it.
C36_PendingCountsStreamsOnce ==
  FannedOut =>
    /\ pending >= 0
    /\ pending = Cardinality({i \in 1..Len(streams) : ~QuorumReached(i)}) + AboutToDecPending

(* -------------------------- claims on the select ---------------------- *)
\* C37: when Push takes its decision with the err signal produced, it does
\* not return success, and unless the caller has cancelled it returns the
\* error that was signalled.
C37_ErrorBeatsDone ==
  [][(pushPC = "select" /\ pushPC' = "returned" /\ err # <<>>) =>
       /\ returnedAt' # 338
       /\ result'.resp # "empty"
       /\ ~ctxCancelled => returnedAt' = 336 /\ result'.err = Head(err)]_vars

(* ---------------------- claims on the ring lookups -------------------- *)
\* the ring answered one of the lookups the call made with an error
LookupFailed == \E i \in 1..Len(replicationSets) : replicationSets[i].err

\* C38: a call that comes to the ring lookups either finds an answer for
\* every key and fans out, or stops at the first lookup the ring answers with
\* an error and returns that error with no response: then no goroutine has
\* been launched, for the streams looked up before no more than for the
\* others, no tracker is left and no RPC is made; and goroutines run only
\* for a request whose every key has its replication set.
C38_LookupErrorStopsFanOut ==
  [][/\ (IsCall /\ returnedAt' \notin {226, 231, 285, 293}) =>
          /\ Len(replicationSets') \in 1..Len(keys')
          /\ \A i \in 1..(Len(replicationSets') - 1) : ~replicationSets'[i].err
          /\ ~LookupFailed' => pushPC' = "select" /\ Len(replicationSets') = Len(keys')
          /\ LookupFailed' =>
               /\ pushPC' = "returned"
               /\ returnedAt' = 303
               /\ result' = [resp |-> "nil", err |-> [kind |-> "ring"]]
               /\ \A a \in Ingesters : taskPC'[a] = "idle"
               /\ UNCHANGED <<rpcVars, trackerVars, taskVars, streamsByIngester>>
     /\ Launched' # {} =>
          /\ ~LookupFailed'
          /\ Len(replicationSets') = Len(keys')
     /\ returnedAt' = 303 =>
          /\ Launched' = {}
          /\ \A a \in Ingesters : payload'[a] = <<>>
          /\ ingesterAppends' = ingesterAppends]_vars

\* C38, its case: a request of two streams whose first key the ring answered
\* with a replication set and whose second key it answered with an error;
\* Push returned the error, no goroutine was launched and no RPC made
C38_Witness ==
  /\ returnedAt = 303
  /\ result.err.kind = "ring"
  /\ Len(keys) = 2
  /\ Len(replicationSets) = 2
  /\ ~replicationSets[1].err
  /\ replicationSets[1].Instances # {}
  /\ replicationSets[2].err
  /\ Launched = {}
  /\ \A a \in Ingesters : ingesterAppends[a] = 0 /\ payload[a] = <<>>

(* --------------------- claims on the goroutines' end ------------------ *)
\* the RPC of the goroutine of address a has returned and the goroutine has
\* not ended
Updating(a) == taskPC[a] \notin {"idle", "rpc", "finished"}

\* C39: a goroutine that comes to send on done or on err finds room in the
\* channel's buffer, whether or not Push is still at its select, and under
\* fair scheduling every goroutine whose RPC has returned ends.
C39_TasksNeverBlock ==
  /\ [](\A a \in Ingesters :
          /\ taskPC[a] = "send_done" => Len(done) < 1
          /\ taskPC[a] = "send_err" => Len(err) < 1)
  /\ \A a \in Ingesters : Updating(a) ~> (taskPC[a] = "finished")

\* C39, its case: Push returned on the caller's cancellation while all its
\* goroutines were still running; they have since ended, one having sent on
\* done and one on err, and both values lie unread in the channels
C39_Witness ==
  /\ returnedAt = 340
  /\ Cardinality(Launched) >= 2
  /\ runningAtReturn = Launched
  /\ AllFinished
  /\ Len(done) = 1
  /\ Len(err) = 1

====
